---- MODULE Spec2Model ----
(***************************************************************************)
(* Model of the multi-store indexing engine of rag-anywhere:               *)
(*   DocumentStore (documents, chunks), VectorStore (FAISS index, id_map,  *)
(*   chunk_vectors table), KeywordSearcher (chunks_fts), EntityStore       *)
(*   (graph_nodes, chunk_edges) and the Indexer that writes to all four.   *)
(* All stores share one SQLite file.  No connection ever issues            *)
(* PRAGMA foreign_keys = ON, so the ON DELETE CASCADE clauses of the       *)
(* schema are inert (SQLite's default) and are modelled as such.           *)
(* Around the engine: the document routes (single and batch add), the      *)
(* Searcher, ServerManager's readiness polling, GLiNERBatchProcessor's     *)
(* label batching, GLiNERSubChunker.split and RAGContext.load_database.    *)
(***************************************************************************)
EXTENDS Integers, Sequences, FiniteSets, TLC

\* ------------------------------------------------------------------ bounds
MaxDocs == 2
MaxChunks == 2
MaxVecs == 2
MaxK == 2
MaxFaults == 2
MaxFreq == 3
MaxNodeId == 3
MaxFts == 2
MaxBatch == 2
MaxLabels == 7
MaxPass == 3
MaxWords == 5
MaxWordSize == 3
MaxOverlap == 3

\* Float 1.0 in the fixed-point representation of vector components.
UnitNorm == 5

\* ------------------------------------------------------------- vector math
RECURSIVE SumSq(_, _)
SumSq(v, i) == IF i = 0 THEN 0 ELSE v[i] * v[i] + SumSq(v, i - 1)

ISqrt(n) == CHOOSE r \in 0..n : r * r <= n /\ n < (r + 1) * (r + 1)

\* np.linalg.norm
Norm(v) == ISqrt(SumSq(v, Len(v)))

\* vector / norm when norm > 0, the vector itself otherwise
Normalize(v) ==
    LET norm == Norm(v)
    IN IF norm > 0
       THEN [i \in DOMAIN v |-> (v[i] * UnitNorm) \div norm]
       ELSE v

RECURSIVE Dot(_, _, _)
Dot(a, b, i) == IF i = 0 THEN 0 ELSE a[i] * b[i] + Dot(a, b, i - 1)

\* IndexFlatIP's metric
InnerProduct(a, b) == Dot(a, b, Len(a))

\* ------------------------------------------------------------ maps and rows
EmptyMap == [x \in {} |-> 0]

MapPut(m, k, v) == [x \in DOMAIN m \cup {k} |-> IF x = k THEN v ELSE m[x]]

Row(c, v) == [chunk_id |-> c, vector |-> v]

\* INSERT OR REPLACE INTO chunk_vectors: chunk_id is the primary key, the
\* replaced row is deleted and the new one gets the largest rowid.
InsertOrReplace(rows, c, v) ==
    SelectSeq(rows, LAMBDA r : r.chunk_id # c) \o <<Row(c, v)>>

RECURSIVE InsertAll(_, _, _)
InsertAll(rows, ids, vecs) ==
    IF ids = <<>> THEN rows
    ELSE InsertAll(InsertOrReplace(rows, Head(ids), Head(vecs)), Tail(ids), Tail(vecs))

\* DELETE FROM chunk_vectors WHERE chunk_id IN (...)
DeleteRows(rows, cs) == SelectSeq(rows, LAMBDA r : r.chunk_id \notin cs)

SeqRange(s) == {s[i] : i \in DOMAIN s}

RowIds(rows) == {rows[i].chunk_id : i \in DOMAIN rows}

\* ------------------------------------------------------------- VectorStore
\* The part of add_batch that touches memory: index.add(vectors) followed by
\* id_map[start_id + i] = chunk_id, with start_id = len(id_map).
MemAppend(idx, idm, ids, vecs) ==
    LET start_id == Cardinality(DOMAIN idm)
        n == Len(ids)
    IN [index |-> idx \o vecs,
        id_map |-> [p \in DOMAIN idm \cup {start_id + i - 1 : i \in 1..n} |->
                      IF \E i \in 1..n : p = start_id + i - 1
                      THEN ids[CHOOSE i \in 1..n : p = start_id + i - 1]
                      ELSE idm[p]]]

\* _load_or_create: a fresh index filled with every stored row in rowid order
\* and id_map = {i: chunk_id}; a stored vector of another width raises after
\* the index and the map were reset.
LoadOrCreate(rows, dim) ==
    IF \E i \in DOMAIN rows : Len(rows[i].vector) # dim
    THEN [index |-> <<>>, id_map |-> EmptyMap, ok |-> FALSE]
    ELSE [index |-> [i \in DOMAIN rows |-> rows[i].vector],
          id_map |-> [p \in {i - 1 : i \in DOMAIN rows} |-> rows[p + 1].chunk_id],
          ok |-> TRUE]

\* IndexFlatIP.search: the k best positions by inner product; equal scores
\* keep insertion order.
Better(idx, q, p, r) ==
    \/ InnerProduct(idx[p + 1], q) > InnerProduct(idx[r + 1], q)
    \/ InnerProduct(idx[p + 1], q) = InnerProduct(idx[r + 1], q) /\ p <= r

RECURSIVE TopK(_, _, _, _)
TopK(idx, q, S, k) ==
    IF k = 0 \/ S = {} THEN <<>>
    ELSE LET best == CHOOSE p \in S : \A r \in S : Better(idx, q, p, r)
         IN <<best>> \o TopK(idx, q, S \ {best}, k - 1)

Min(a, b) == IF a <= b THEN a ELSE b

\* VectorStore.search: [] on an empty index, otherwise the mapped hits of the
\* FAISS result as (chunk_id, score); unmapped positions are skipped.
Search(idx, idm, dim, query, k) ==
    IF Len(idx) = 0 THEN <<>>
    ELSE LET q == Normalize(query)
             hits == TopK(idx, q, {i - 1 : i \in DOMAIN idx}, Min(k, Len(idx)))
             kept == SelectSeq(hits, LAMBDA p : p \in DOMAIN idm)
         IN [i \in DOMAIN kept |->
               <<idm[kept[i]], InnerProduct(idx[kept[i] + 1], q)>>]

Ranking(res) == [i \in DOMAIN res |-> res[i][1]]

\* ------------------------------------------------------------------- state
VARIABLES
    dimension,      \* VectorStore.dimension, fixed per database
    documents,      \* documents table: id -> filename
    chunks,         \* chunks table: set of chunk rows
    next_doc,       \* stands for uuid.uuid4(): ids are never reused
    index,          \* FAISS index: vectors by position (position p is index[p+1])
    id_map,         \* VectorStore.id_map: position -> chunk id
    chunk_vectors,  \* chunk_vectors table, rows in rowid order
    chunks_fts,     \* chunks_fts table, rows in rowid order
    graph_nodes,    \* graph_nodes table
    chunk_edges,    \* chunk_edges table
    next_node_id,   \* AUTOINCREMENT counter of graph_nodes
    pc,             \* position of the running Indexer call
    cur,            \* locals of the running Indexer call
    last,           \* how the last Indexer call ended
    rb,             \* position inside VectorStore._load_or_create
    rb_rows,        \* rows fetched by the running _load_or_create
    pre,            \* (index, id_map) when the running VectorStore call began
    observed,       \* what the last VectorStore.search saw
    vs_last,        \* how the last direct VectorStore call ended
    faults,         \* failures injected so far (external stages, SQLite, signals)
    splitter,       \* Indexer.splitter of the shared Indexer
    route,          \* locals of the running /documents route call
    context,        \* RAGContext: active database and the components built for it
    poll            \* locals of the running ServerManager.start_server call

vars == <<dimension, documents, chunks, next_doc, index, id_map, chunk_vectors,
          chunks_fts, graph_nodes, chunk_edges, next_node_id, pc, cur, last,
          rb, rb_rows, pre, observed, vs_last, faults, splitter, route, context, poll>>

\* The database's configuration and the server process around the stores.
appVars == <<dimension, splitter, route, context, poll>>

docVars == <<documents, chunks, next_doc>>
vecVars == <<index, id_map, chunk_vectors>>
kgVars == <<graph_nodes, chunk_edges, next_node_id>>
idxVars == <<pc, cur, last>>
vsVars == <<rb, rb_rows, pre, observed, vs_last>>

\* n more failures happen in this step, within the budget of the run.
Spend(n) == faults + n <= MaxFaults /\ faults' = faults + n

\* Dimensions a database can be configured with, and the vectors callers pass.
Dims == {1, 2}
VecInputs == {<<2>>, <<3, 4>>, <<4, 3>>, <<6, 8>>, <<1, 2, 2>>}
Queries(dim) == {v \in VecInputs : Len(v) = dim}

ChunkId(d, i) == <<d, i>>
VSIds == {ChunkId(1, 0), ChunkId(1, 1)}

NoCall == [op |-> "none"]

\* The state after construction, but for the locals of the running call.
\* RAGContext after construction: nothing loaded, no indexer, no searcher.
\* A component is named by the database whose files (or whose configuration)
\* it was built from.
NoIndexer ==
    [document_store |-> "none", vector_store |-> "none",
     embedding_provider |-> "none", keyword_searcher |-> "none",
     entity_store |-> "none", gliner_processor |-> "none"]

NoSearcher ==
    [document_store |-> "none", vector_store |-> "none",
     embedding_provider |-> "none"]

NoContext ==
    [active_db_name |-> "none", db_config |-> "none",
     embedding_provider |-> "none", loaded_embedding_model |-> "none",
     document_store |-> "none", vector_store |-> "none",
     keyword_searcher |-> "none", entity_store |-> "none",
     gliner_processor |-> "none", loaded_gliner_model |-> "none",
     indexer |-> NoIndexer, searcher |-> NoSearcher]

InitRest ==
    /\ dimension \in Dims
    /\ documents = EmptyMap
    /\ chunks = {}
    /\ next_doc = 1
    /\ index = <<>>
    /\ id_map = EmptyMap
    /\ chunk_vectors = <<>>
    /\ chunks_fts = <<>>
    /\ graph_nodes = {}
    /\ chunk_edges = {}
    /\ next_node_id = 1
    /\ pc = "idle"
    /\ last = NoCall
    /\ rb = "idle"
    /\ rb_rows = <<>>
    /\ pre = <<index, id_map>>
    /\ observed = NoCall
    /\ vs_last = NoCall
    /\ faults = 0
    /\ splitter = "configured"
    /\ route = NoCall
    /\ context = NoContext
    /\ poll = NoCall

Init == InitRest /\ cur = NoCall

\* ------------------------------------------- VectorStore called directly
\* A width check that lets narrower or wider vectors through.
WidthUnchecked(vecs, dim) == TRUE

\* The width check of add / add_batch.
WidthOk(vecs, dim) == \A i \in DOMAIN vecs : Len(vecs[i]) = dim

\* What add_batch does to (index, id_map, chunk_vectors) when it is not
\* interrupted: reject, or normalise, append to memory and persist.
AddBatchResult(idx, idm, rows, dim, ids, vecs) ==
    IF Len(ids) # Len(vecs) \/ ~WidthOk(vecs, dim)
    THEN [raised |-> TRUE, index |-> idx, id_map |-> idm, rows |-> rows]
    ELSE LET nv == [i \in DOMAIN vecs |-> Normalize(vecs[i])]
             m == MemAppend(idx, idm, ids, nv)
         IN [raised |-> FALSE, index |-> m.index, id_map |-> m.id_map,
             rows |-> InsertAll(rows, ids, nv)]

VSCall(op, widthOk, r) ==
    [op |-> op, width_ok |-> widthOk, raised |-> r.raised,
     changed |-> <<r.index, r.id_map, r.rows>> # <<index, id_map, chunk_vectors>>]

\* VectorStore.add(chunk_id, vector)
VSAdd(c, v) ==
    /\ pc = "idle" /\ rb = "idle"
    /\ Len(index) < MaxVecs
    /\ LET r == AddBatchResult(index, id_map, chunk_vectors, dimension, <<c>>, <<v>>)
       IN /\ index' = r.index
          /\ id_map' = r.id_map
          /\ chunk_vectors' = r.rows
          /\ pre' = <<r.index, r.id_map>>
          /\ vs_last' = VSCall("add", Len(v) = dimension, r)
    /\ UNCHANGED <<faults, appVars, docVars, chunks_fts, kgVars, idxVars, rb, rb_rows, observed>>

\* VectorStore.add_batch(chunk_ids, vectors); vectors is a 2-D array, so all
\* its rows have one width.
VSAddBatch(ids, vecs) ==
    /\ pc = "idle" /\ rb = "idle"
    /\ Len(index) + Len(vecs) <= MaxVecs
    /\ LET r == AddBatchResult(index, id_map, chunk_vectors, dimension, ids, vecs)
       IN /\ index' = r.index
          /\ id_map' = r.id_map
          /\ chunk_vectors' = r.rows
          /\ pre' = <<r.index, r.id_map>>
          /\ vs_last' = VSCall("add_batch", \A i \in DOMAIN vecs : Len(vecs[i]) = dimension, r)
    /\ UNCHANGED <<faults, appVars, docVars, chunks_fts, kgVars, idxVars, rb, rb_rows, observed>>

\* VectorStore.delete(chunk_ids), up to the rows fetched by _load_or_create:
\* the rows are deleted and committed, then the rebuild starts.
VSDelete(cs) ==
    /\ pc = "idle" /\ rb = "idle"
    /\ chunk_vectors' = DeleteRows(chunk_vectors, cs)
    /\ rb_rows' = chunk_vectors'
    /\ rb' = "reset_index"
    /\ pre' = <<index, id_map>>
    /\ vs_last' = [op |-> "delete", width_ok |-> TRUE, raised |-> FALSE,
                   changed |-> chunk_vectors' # chunk_vectors]
    /\ UNCHANGED <<faults, appVars, docVars, index, id_map, chunks_fts, kgVars, idxVars, observed>>

\* _load_or_create line 59: self.index = faiss.IndexFlatIP(self.dimension)
RebuildResetIndex ==
    /\ rb = "reset_index"
    /\ index' = <<>>
    /\ rb' = "reset_map"
    /\ UNCHANGED <<faults, appVars, docVars, id_map, chunk_vectors, chunks_fts, kgVars,
                   idxVars, rb_rows, pre, observed, vs_last>>

\* line 60: self.id_map = {}
RebuildResetMap ==
    /\ rb = "reset_map"
    /\ id_map' = EmptyMap
    /\ rb' = IF rb_rows = <<>> THEN "idle" ELSE "add_vectors"
    /\ pre' = IF rb_rows = <<>> THEN <<index, id_map'>> ELSE pre
    /\ UNCHANGED <<faults, appVars, docVars, index, chunk_vectors, chunks_fts, kgVars,
                   idxVars, rb_rows, observed, vs_last>>

\* line 90: self.index.add(vectors_array)
RebuildAddVectors ==
    /\ rb = "add_vectors"
    /\ index' = LoadOrCreate(rb_rows, dimension).index
    /\ rb' = "set_map"
    /\ UNCHANGED <<faults, appVars, docVars, id_map, chunk_vectors, chunks_fts, kgVars,
                   idxVars, rb_rows, pre, observed, vs_last>>

\* line 91: self.id_map = {i: chunk_id ...}
RebuildSetMap ==
    /\ rb = "set_map"
    /\ id_map' = LoadOrCreate(rb_rows, dimension).id_map
    /\ rb' = "idle"
    /\ pre' = <<index, id_map'>>
    /\ UNCHANGED <<faults, appVars, docVars, index, chunk_vectors, chunks_fts, kgVars,
                   idxVars, rb_rows, observed, vs_last>>

\* A process restart: the in-memory index is discarded and a new VectorStore
\* is constructed over the same database file.
VSRestart ==
    /\ pc = "idle" /\ rb = "idle"
    /\ LET l == LoadOrCreate(chunk_vectors, dimension)
       IN /\ index' = l.index
          /\ id_map' = l.id_map
          /\ pre' = <<l.index, l.id_map>>
    /\ vs_last' = [op |-> "restart", width_ok |-> TRUE, raised |-> FALSE,
                   changed |-> <<index', id_map'>> # <<index, id_map>>]
    /\ UNCHANGED <<faults, appVars, docVars, chunk_vectors, chunks_fts, kgVars, idxVars,
                   rb, rb_rows, observed>>

\* VectorStore.search(query, k) on another thread: nothing in VectorStore
\* keeps it out of a running _load_or_create.
VSSearch(q, k) ==
    /\ pc = "idle"
    /\ LET l == LoadOrCreate(rb_rows, dimension)
           after == IF rb = "idle" THEN pre ELSE <<l.index, l.id_map>>
           res == Search(index, id_map, dimension, q, k)
       IN observed' = [op |-> "search",
                       during_rebuild |-> rb # "idle",
                       consistent |-> <<index, id_map>> \in {pre, after},
                       hits |-> Len(res)]
    /\ UNCHANGED <<faults, appVars, docVars, vecVars, chunks_fts, kgVars, idxVars,
                   rb, rb_rows, pre, vs_last>>

\* ---------------------------------------------------------- DocumentStore
\* SQLite enforces foreign keys only on a connection that ran
\* PRAGMA foreign_keys = ON; DocumentStore's connections never do.
foreign_keys == FALSE

ChunkRow(d, i, f) ==
    [id |-> ChunkId(d, i), document_id |-> d, chunk_index |-> i, content |-> <<f, i>>]

\* add_document: one document row and one chunk row per chunk, one commit.
AddDocumentChunks(rows, d, f, n) == rows \cup {ChunkRow(d, i, f) : i \in 0..(n - 1)}

\* A lookup that never finds the filename.
HasFilenameNever(docs, f) == FALSE

\* get_document_by_filename
HasFilename(docs, f) == \E d \in DOMAIN docs : docs[d] = f

\* A delete that reports success and removes nothing.
DeleteDocumentRowKept(docs, d) == docs

\* delete_document: DELETE FROM documents WHERE id = ?
DeleteDocumentRow(docs, d) == [x \in DOMAIN docs \ {d} |-> docs[x]]

\* A lookup that finds every id.
DocumentExistsAlways(docs, d) == TRUE

\* delete_document lines 221-224: SELECT id FROM documents WHERE id = ?
DocumentExists(docs, d) == d \in DOMAIN docs

\* What DELETE FROM documents does to the chunks table: ON DELETE CASCADE
\* acts only when foreign keys are enforced.
CascadeChunks(rows, d) ==
    IF foreign_keys THEN {r \in rows : r.document_id # d} ELSE rows

\* get_chunks_by_document: chunk ids ordered by chunk_index
ChunkIdsOfDocument(rows, d) ==
    LET mine == {r \in rows : r.document_id = d}
    IN [i \in 1..Cardinality(mine) |-> ChunkId(d, i - 1)]

\* -------------------------------------------------------- KeywordSearcher
FtsRow(c, content) == [chunk_id |-> c, content |-> content]

\* index_chunks_batch: chunks_fts declares no key on chunk_id, so
\* INSERT OR REPLACE always adds a row.
IndexChunksBatch(rows, entries) == rows \o entries

\* delete_chunks_batch: DELETE FROM chunks_fts WHERE chunk_id IN (...)
DeleteChunksBatch(rows, cs) == SelectSeq(rows, LAMBDA r : r.chunk_id \notin cs)

\* Text is a sequence of tokens: words, the FTS5 keywords AND / OR / NOT and
\* the punctuation the sanitiser or the FTS5 tokenizer acts on.
QUOTE == "\""
ESCAPED_QUOTE == "\"\""
Operators == {"AND", "OR", "NOT"}
Punctuation == {QUOTE, "(", ")", "/", "\\"}

\* The tokens of a stored chunk text (porter / unicode61 output).
WordsOf(content) ==
    IF content[1] = "a.txt"
    THEN (IF content[2] = 0 THEN <<"machine", "learning">>
                            ELSE <<"learning", "machine", "deep">>)
    ELSE <<"deep", "learning">>

\* _escape_fts5_special_chars: quotes, slashes, backslashes and parentheses
\* become spaces, runs of spaces collapse, the ends are stripped.
EscapeFts5SpecialChars(text) == SelectSeq(text, LAMBDA t : t \notin Punctuation)

\* search line 152: the query as one phrase, inner quotes doubled
ExactMatchQuery(query) ==
    <<QUOTE>> \o [i \in DOMAIN query |->
                    IF query[i] = QUOTE THEN ESCAPED_QUOTE ELSE query[i]] \o <<QUOTE>>

\* search lines 164-176: " NOT term" per exclusion, unless the query is blank
RECURSIVE AddExclusions(_, _, _)
AddExclusions(fts_query, terms, escape) ==
    IF terms = <<>> THEN fts_query
    ELSE LET term == IF escape THEN EscapeFts5SpecialChars(Head(terms)) ELSE Head(terms)
         IN AddExclusions(IF fts_query # <<>> THEN fts_query \o <<"NOT">> \o term
                                              ELSE fts_query,
                          Tail(terms), escape)

\* search lines 149-176: the string handed to MATCH
FtsQuery(query, exclude_terms, exact_match, escape_special_chars) ==
    AddExclusions(
        IF exact_match THEN ExactMatchQuery(query)
        ELSE IF escape_special_chars THEN EscapeFts5SpecialChars(query)
        ELSE query,
        exclude_terms, escape_special_chars)

\* FTS5's reading of a query string: quoted runs are phrases (the tokenizer
\* drops punctuation and folds case inside them), bare AND / OR / NOT are
\* operators, any other bare token is a one-word phrase.
Item(k, w) == [k |-> k, w |-> w]

Fold(t) ==
    CASE t = "AND" -> "and" [] t = "OR" -> "or" [] t = "NOT" -> "not" [] OTHER -> t

RECURSIVE Lex(_, _, _)
Lex(toks, inq, ph) ==
    IF toks = <<>> THEN (IF inq THEN <<Item("error", <<>>)>> ELSE <<>>)
    ELSE LET t == Head(toks)
             rest == Tail(toks)
         IN IF t = QUOTE
            THEN (IF inq THEN <<Item("phrase", ph)>> \o Lex(rest, FALSE, <<>>)
                         ELSE Lex(rest, TRUE, <<>>))
            ELSE IF inq
            THEN Lex(rest, TRUE,
                     IF t \in Punctuation \cup {ESCAPED_QUOTE} THEN ph ELSE Append(ph, Fold(t)))
            ELSE IF t \in Operators THEN <<Item("op", <<t>>)>> \o Lex(rest, FALSE, <<>>)
            ELSE IF t = "(" THEN <<Item("lparen", <<>>)>> \o Lex(rest, FALSE, <<>>)
            ELSE IF t = ")" THEN <<Item("rparen", <<>>)>> \o Lex(rest, FALSE, <<>>)
            ELSE IF t \in Punctuation \cup {ESCAPED_QUOTE}
            THEN <<Item("error", <<>>)>> \o Lex(rest, FALSE, <<>>)
            ELSE <<Item("phrase", <<t>>)>> \o Lex(rest, FALSE, <<>>)

IsOp(item, op) == item.k = "op" /\ item.w = <<op>>

RECURSIVE SplitOn(_, _)
SplitOn(items, op) ==
    IF \E i \in DOMAIN items : IsOp(items[i], op)
    THEN LET i == CHOOSE i \in DOMAIN items :
                     IsOp(items[i], op) /\ \A j \in 1..(i - 1) : ~IsOp(items[j], op)
         IN <<SubSeq(items, 1, i - 1)>> \o SplitOn(SubSeq(items, i + 1, Len(items)), op)
    ELSE <<items>>

\* The words occur contiguously and in order.
ContainsPhrase(words, ph) ==
    /\ ph # <<>>
    /\ \E i \in 1..(Len(words) - Len(ph) + 1) : SubSeq(words, i, i + Len(ph) - 1) = ph

Holds(item, words) ==
    IF item.k = "bool" THEN item.w = <<"true">> ELSE ContainsPhrase(words, item.w)

\* Juxtaposed phrases are ANDed and bind tightest, then NOT, AND, OR.
EvalJuxt(p, words) == \A i \in DOMAIN p : Holds(p[i], words)

EvalNot(p, words) ==
    LET ps == SplitOn(p, "NOT")
    IN EvalJuxt(ps[1], words) /\ \A j \in 2..Len(ps) : ~EvalJuxt(ps[j], words)

EvalAnd(p, words) ==
    LET ps == SplitOn(p, "AND") IN \A j \in DOMAIN ps : EvalNot(ps[j], words)

EvalOr(p, words) ==
    LET ps == SplitOn(p, "OR") IN \E j \in DOMAIN ps : EvalAnd(ps[j], words)

\* A parenthesis-free expression is well formed: operands around every
\* operator.
FlatValid(items) ==
    /\ items # <<>>
    /\ \A i \in DOMAIN items : items[i].k \in {"phrase", "bool", "op"}
    /\ items[1].k # "op" /\ items[Len(items)].k # "op"
    /\ \A i \in 1..(Len(items) - 1) : ~(items[i].k = "op" /\ items[i + 1].k = "op")

\* chunks_fts MATCH ?: innermost parenthesised groups are evaluated first;
\* ok is FALSE on an FTS5 syntax error.
RECURSIVE EvalQuery(_, _)
EvalQuery(items, words) ==
    IF \E i \in DOMAIN items : items[i].k = "rparen"
    THEN LET r == CHOOSE i \in DOMAIN items :
                     items[i].k = "rparen" /\ \A j \in 1..(i - 1) : items[j].k # "rparen"
             ls == {i \in 1..(r - 1) : items[i].k = "lparen"}
             l == CHOOSE i \in ls : \A j \in ls : j <= i
             inner == SubSeq(items, l + 1, r - 1)
         IN IF ls = {} \/ ~FlatValid(inner) THEN [ok |-> FALSE, v |-> FALSE]
            ELSE EvalQuery(SubSeq(items, 1, l - 1)
                           \o <<Item("bool", IF EvalOr(inner, words)
                                             THEN <<"true">> ELSE <<"false">>)>>
                           \o SubSeq(items, r + 1, Len(items)), words)
    ELSE IF ~FlatValid(items) THEN [ok |-> FALSE, v |-> FALSE]
    ELSE [ok |-> TRUE, v |-> EvalOr(items, words)]

\* KeywordSearcher.search: ValueError on a syntax error, otherwise the chunk
\* ids of the first top_k matching rows.  Rows stand in rowid order; the
\* BM25 order among the hits is not modelled.
KwSearch(rows, query, top_k, exclude_terms, exact_match, escape_special_chars) ==
    LET items == Lex(FtsQuery(query, exclude_terms, exact_match, escape_special_chars),
                     FALSE, <<>>)
    IN IF ~EvalQuery(items, <<>>).ok THEN [raised |-> "ValueError", hits |-> <<>>]
       ELSE LET m == SelectSeq(rows, LAMBDA r : EvalQuery(items, WordsOf(r.content)).v)
            IN [raised |-> "none",
                hits |-> [i \in 1..Min(top_k, Len(m)) |-> m[i].chunk_id]]

\* count(): SELECT COUNT(*) FROM chunks_fts
KwCount(rows) == Len(rows)

\* index_chunk: one INSERT OR REPLACE (see IndexChunksBatch)
IndexChunk(rows, c, content) == IndexChunksBatch(rows, <<FtsRow(c, content)>>)

\* delete_chunk: DELETE FROM chunks_fts WHERE chunk_id = ?
DeleteChunk(rows, c) == DeleteChunksBatch(rows, {c})

\* SELECT id, content FROM chunks, in primary-key order
RECURSIVE ChunkRowsInOrder(_)
ChunkRowsInOrder(rows) ==
    IF rows = {} THEN <<>>
    ELSE LET m == CHOOSE r \in rows : \A x \in rows :
                     \/ r.document_id < x.document_id
                     \/ r.document_id = x.document_id /\ r.chunk_index <= x.chunk_index
         IN <<m>> \o ChunkRowsInOrder(rows \ {m})

\* rebuild_index: DELETE FROM chunks_fts, then one row per row of chunks
RebuildIndex(chunkrows) ==
    LET src == ChunkRowsInOrder(chunkrows)
    IN [i \in DOMAIN src |-> FtsRow(src[i].id, src[i].content)]

\* ------------------------------------------------------------ EntityStore
LowerChar(ch) ==
    CASE ch = "C" -> "c" [] ch = "D" -> "d" [] OTHER -> ch

\* str.lower()
Lower(s) == [i \in DOMAIN s |-> LowerChar(s[i])]

\* str.strip()
RECURSIVE LStrip(_)
LStrip(s) == IF s # <<>> /\ Head(s) = " " THEN LStrip(Tail(s)) ELSE s

RECURSIVE RStrip(_)
RStrip(s) ==
    IF s # <<>> /\ s[Len(s)] = " " THEN RStrip(SubSeq(s, 1, Len(s) - 1)) ELSE s

Strip(s) == RStrip(LStrip(s))

Entity(text, label, score) == [text |-> text, label |-> label, score |-> score]

\* An upsert keyed by the lowercased text as extracted, blanks included.
AddEntityUnstripped(st, c, e, source) ==
    LET name == Lower(e.text)
        display == Strip(e.text)
        hit == {n \in st.nodes : n.name = name /\ n.category = e.label}
        old == CHOOSE n \in hit : TRUE
        node == IF hit = {}
                THEN [id |-> st.next, name |-> name, display_name |-> display,
                      category |-> e.label, frequency |-> 1]
                ELSE [old EXCEPT !.frequency = @ + 1,
                                 !.display_name =
                                     IF Len(display) > Len(@) THEN display ELSE @]
    IN [nodes |-> (st.nodes \ hit) \cup {node},
        edges |-> {x \in st.edges : ~(x.chunk_id = c /\ x.node_id = node.id)}
                  \cup {[chunk_id |-> c, node_id |-> node.id,
                         weight |-> e.score, source |-> source]},
        next |-> IF hit = {} THEN st.next + 1 ELSE st.next]

\* One iteration of the loop of add_entities: upsert the node keyed by
\* (name, category), then INSERT OR REPLACE the edge (chunk_id, node_id).
AddEntity(st, c, e, source) ==
    LET name == Lower(Strip(e.text))
        display == Strip(e.text)
        hit == {n \in st.nodes : n.name = name /\ n.category = e.label}
        old == CHOOSE n \in hit : TRUE
        node == IF hit = {}
                THEN [id |-> st.next, name |-> name, display_name |-> display,
                      category |-> e.label, frequency |-> 1]
                ELSE [old EXCEPT !.frequency = @ + 1,
                                 !.display_name =
                                     IF Len(display) > Len(@) THEN display ELSE @]
    IN [nodes |-> (st.nodes \ hit) \cup {node},
        edges |-> {x \in st.edges : ~(x.chunk_id = c /\ x.node_id = node.id)}
                  \cup {[chunk_id |-> c, node_id |-> node.id,
                         weight |-> e.score, source |-> source]},
        next |-> IF hit = {} THEN st.next + 1 ELSE st.next]

\* add_entities over the first k entities of the list
RECURSIVE AddEntities(_, _, _, _, _)
AddEntities(st, c, ents, k, source) ==
    IF k = 0 \/ ents = <<>> THEN st
    ELSE AddEntities(AddEntity(st, c, Head(ents), source), c, Tail(ents), k - 1, source)

\* A delete that drops the chunk's edges and leaves the nodes alone.
DeleteChunkEntitiesNoPrune(st, c) ==
    [nodes |-> st.nodes,
     edges |-> {x \in st.edges : x.chunk_id # c},
     next |-> st.next]

\* delete_chunk_entities: the chunk's edges, then every node without an edge
DeleteChunkEntities(st, c) ==
    LET edges == {x \in st.edges : x.chunk_id # c}
    IN [nodes |-> {n \in st.nodes : \E x \in edges : x.node_id = n.id},
        edges |-> edges,
        next |-> st.next]

KG == [nodes |-> graph_nodes, edges |-> chunk_edges, next |-> next_node_id]

\* ---------------------------------------------------------------- Indexer
Files == {"a.txt", "b.txt"}

\* The splitter's output size for each file's content.
ChunksOf(f) == IF f = "a.txt" THEN MaxChunks ELSE 1

\* The external stages, as functions of the chunk they are given.
EmbeddingOf(f, i) == IF i = 0 THEN <<3, 4>> ELSE <<4, 3>>

ExtractedEntities(f, i) ==
    IF i = 0
    THEN <<Entity(<<"C", "a", "t">>, "animal", 90)>>
    ELSE <<Entity(<<" ", "c", "a", "t", " ">>, "animal", 70),
           Entity(<<"D", "o", "g", "s">>, "animal", 80)>>

\* server/routes/documents.py: what the add and remove routes answer for
\* each way the Indexer call ends (0: the process ended, no answer).
AddDocumentStatus(result) ==
    CASE result = "returned" -> 200
      [] result = "no_file" -> 404
      [] result = "interrupted" -> 0
      [] OTHER -> 500

RemoveDocumentStatus(result) ==
    CASE result = "true" -> 200
      [] result = "false" -> 404
      [] OTHER -> 500

Ended(op, d, result) ==
    [op |-> op, doc |-> d, result |-> result, error |-> "none",
     status |-> IF op = "index" THEN AddDocumentStatus(result)
                                ELSE RemoveDocumentStatus(result),
     raised_error |-> "none", attempted |-> {}, cleanup_failed |-> {},
     existed |-> FALSE, was_indexed |-> FALSE, filename |-> "none",
     n_chunks |-> 0, vectors_stored |-> FALSE, fts_indexed |-> FALSE]

MemIds == {id_map[p] : p \in DOMAIN id_map}
FtsIds == RowIds(chunks_fts)
EdgeIds == {x.chunk_id : x \in chunk_edges}

\* index_document lines 67-75: the filename is taken, ValueError.
IndexRejected(f) ==
    /\ pc = "idle" /\ rb = "idle"
    /\ HasFilename(documents, f)
    /\ last' = [Ended("index", 0, "rejected") EXCEPT !.filename = f]
    /\ UNCHANGED <<faults, appVars, docVars, vecVars, chunks_fts, kgVars, pc, cur, vsVars>>

\* index_document lines 77-102: load, split into n chunks, add_document.
\* last describes a finished call, so it is cleared while a call runs.
IndexPersist(f, n) ==
    /\ pc = "idle" /\ rb = "idle"
    /\ ~HasFilename(documents, f)
    /\ next_doc <= MaxDocs
    /\ documents' = MapPut(documents, next_doc, f)
    /\ chunks' = AddDocumentChunks(chunks, next_doc, f, n)
    /\ next_doc' = next_doc + 1
    /\ cur' = [op |-> "index", doc_id |-> next_doc, filename |-> f,
               chunk_ids |-> [i \in 1..n |-> ChunkId(next_doc, i - 1)],
               vectors_stored |-> FALSE, fts_indexed |-> FALSE,
               error |-> "none", todo |-> <<>>]
    /\ pc' = "embed"
    /\ last' = NoCall
    /\ UNCHANGED <<faults, appVars, vecVars, chunks_fts, kgVars, vsVars>>

Fail(stage) ==
    /\ pc' = "rollback"
    /\ cur' = [cur EXCEPT !.error = stage]

\* line 115: embedding_provider.embed(chunk_texts) returns or raises
Embed(ok) ==
    /\ pc = "embed"
    /\ IF ok THEN pc' = "add_batch" /\ cur' = cur /\ Spend(0)
       ELSE Fail("embed") /\ Spend(1)
    /\ UNCHANGED <<appVars, docVars, vecVars, chunks_fts, kgVars, last, vsVars>>

\* lines 119-120: vector_store.add_batch, then vectors_stored = True.  The
\* call raises on a width mismatch (nothing written) or when SQLite fails
\* (the vectors are already in the FAISS index and id_map, nothing is durable).
AddBatch(sqlite_ok) ==
    /\ pc = "add_batch"
    /\ LET vecs == [i \in DOMAIN cur.chunk_ids |->
                      EmbeddingOf(cur.filename, cur.chunk_ids[i][2])]
           r == AddBatchResult(index, id_map, chunk_vectors, dimension,
                               cur.chunk_ids, vecs)
       IN /\ r.raised => sqlite_ok
          /\ index' = r.index
          /\ id_map' = r.id_map
          /\ chunk_vectors' = IF sqlite_ok THEN r.rows ELSE chunk_vectors
          /\ Spend(IF sqlite_ok THEN 0 ELSE 1)
          /\ IF sqlite_ok /\ ~r.raised
             THEN pc' = "fts" /\ cur' = [cur EXCEPT !.vectors_stored = TRUE]
             ELSE Fail("add_batch")
    /\ UNCHANGED <<appVars, docVars, chunks_fts, kgVars, last, vsVars>>

\* lines 123-127: keyword_searcher.index_chunks_batch (one transaction),
\* then fts_indexed = True.
IndexFts(ok) ==
    /\ pc = "fts"
    /\ IF ok
       THEN /\ chunks_fts' = IndexChunksBatch(chunks_fts,
                 [i \in DOMAIN cur.chunk_ids |->
                    FtsRow(cur.chunk_ids[i], <<cur.filename, cur.chunk_ids[i][2]>>)])
            /\ pc' = "extract"
            /\ cur' = [cur EXCEPT !.fts_indexed = TRUE]
            /\ Spend(0)
       ELSE Fail("fts") /\ Spend(1) /\ UNCHANGED chunks_fts
    /\ UNCHANGED <<appVars, docVars, vecVars, kgVars, last, vsVars>>

\* lines 138-142: gliner_processor.process_chunks returns or raises
Extract(ok) ==
    /\ pc = "extract"
    /\ IF ok
       THEN pc' = "add_entities" /\ cur' = [cur EXCEPT !.todo = cur.chunk_ids] /\ Spend(0)
       ELSE Fail("entities") /\ Spend(1)
    /\ UNCHANGED <<appVars, docVars, vecVars, chunks_fts, kgVars, last, vsVars>>

\* lines 146-152, one pass of the loop: entity_store.add_entities for the
\* next chunk stores all its entities, or raises after the first k of them.
StoreEntities(k) ==
    /\ pc = "add_entities"
    /\ cur.todo # <<>>
    /\ LET c == Head(cur.todo)
           ents == ExtractedEntities(cur.filename, c[2])
           st == AddEntities(KG, c, ents, k, "gliner")
       IN /\ k \in 0..Len(ents)
          /\ graph_nodes' = st.nodes
          /\ chunk_edges' = st.edges
          /\ next_node_id' = st.next
          /\ IF k = Len(ents)
             THEN pc' = pc /\ cur' = [cur EXCEPT !.todo = Tail(cur.todo)] /\ Spend(0)
             ELSE Fail("entities") /\ Spend(1)
    /\ UNCHANGED <<appVars, docVars, vecVars, chunks_fts, last, vsVars>>

\* line 157: return doc_id
IndexReturn ==
    /\ pc = "add_entities"
    /\ cur.todo = <<>>
    /\ pc' = "idle"
    /\ cur' = NoCall
    /\ last' = [Ended("index", cur.doc_id, "returned") EXCEPT !.filename = cur.filename]
    /\ UNCHANGED <<faults, appVars, docVars, vecVars, chunks_fts, kgVars, vsVars>>

\* The cleanup steps of the except block, in the order it takes them: one
\* delete_chunk_entities per chunk id, delete_chunks_batch if fts_indexed,
\* vector_store.delete if vectors_stored, delete_document.
CleanupSteps(c) ==
    [j \in DOMAIN c.chunk_ids |-> <<"entities", j>>]
    \o (IF c.fts_indexed THEN << <<"fts", 0>> >> ELSE <<>>)
    \o (IF c.vectors_stored THEN << <<"vectors", 0>> >> ELSE <<>>)
    \o << <<"document", 0>> >>

\* A rollback that gives up at the first cleanup step that raises.
RollbackRunAborting(steps, fails) ==
    IF \E i \in DOMAIN steps : steps[i] \in fails
    THEN SubSeq(steps, 1, CHOOSE i \in DOMAIN steps :
                   steps[i] \in fails /\ \A j \in 1..(i - 1) : steps[j] \notin fails)
    ELSE steps

\* The steps the except block runs when the steps in fails raise: each is
\* wrapped in try / except Exception: pass, so all of them.
RollbackRun(steps, fails) == steps

\* line 192: raise e
ReRaised(original, failed) == original

RECURSIVE DeleteEntitiesOf(_, _, _, _)
DeleteEntitiesOf(st, ids, j, done) ==
    IF j > Len(ids) THEN st
    ELSE DeleteEntitiesOf(
             IF <<"entities", j>> \in done THEN DeleteChunkEntities(st, ids[j]) ELSE st,
             ids, j + 1, done)

\* VectorStore.delete as one call: delete the rows, rebuild from the table.
DeleteVectorsNoRebuild(idx, idm, rows, dim, cs) ==
    [index |-> idx, id_map |-> idm, rows |-> DeleteRows(rows, cs)]

DeleteVectors(idx, idm, rows, dim, cs) ==
    LET left == DeleteRows(rows, cs)
        l == LoadOrCreate(left, dim)
    IN [index |-> l.index, id_map |-> l.id_map, rows |-> left]

\* lines 159-192: the except Exception block.  The steps in fails raise and
\* change nothing.
Rollback(fails) ==
    /\ pc = "rollback"
    /\ LET steps == CleanupSteps(cur)
           run == RollbackRun(steps, fails)
           done == SeqRange(run) \ fails
           ids == SeqRange(cur.chunk_ids)
           st == DeleteEntitiesOf(KG, cur.chunk_ids, 1, done)
           v == IF <<"vectors", 0>> \in done
                THEN DeleteVectors(index, id_map, chunk_vectors, dimension, ids)
                ELSE [index |-> index, id_map |-> id_map, rows |-> chunk_vectors]
       IN /\ fails \subseteq SeqRange(steps)
          /\ Spend(Cardinality(fails))
          /\ graph_nodes' = st.nodes
          /\ chunk_edges' = st.edges
          /\ next_node_id' = st.next
          /\ chunks_fts' = IF <<"fts", 0>> \in done
                           THEN DeleteChunksBatch(chunks_fts, ids) ELSE chunks_fts
          /\ index' = v.index
          /\ id_map' = v.id_map
          /\ chunk_vectors' = v.rows
          /\ documents' = IF <<"document", 0>> \in done
                          THEN DeleteDocumentRow(documents, cur.doc_id) ELSE documents
          /\ chunks' = IF <<"document", 0>> \in done
                       THEN CascadeChunks(chunks, cur.doc_id) ELSE chunks
          /\ last' = [Ended("index", cur.doc_id, "raised") EXCEPT
                        !.error = cur.error,
                        !.raised_error = ReRaised(cur.error, SeqRange(run) \cap fails),
                        !.attempted = SeqRange(run),
                        !.cleanup_failed = SeqRange(run) \cap fails,
                        !.n_chunks = Len(cur.chunk_ids),
                        !.vectors_stored = cur.vectors_stored,
                        !.fts_indexed = cur.fts_indexed]
    /\ pc' = "idle"
    /\ cur' = NoCall
    /\ pre' = <<index', id_map'>>
    /\ UNCHANGED <<appVars, next_doc, rb, rb_rows, observed, vs_last>>

\* SIGINT / SIGTERM while index_document runs: the handler calls sys.exit(0),
\* SystemExit is no Exception, so the except block is skipped and the process
\* ends; the next process constructs its VectorStore from the table.
Interrupt ==
    /\ pc \in {"embed", "add_batch", "fts", "extract", "add_entities", "rollback"}
    /\ Spend(1)
    /\ LET l == LoadOrCreate(chunk_vectors, dimension)
       IN index' = l.index /\ id_map' = l.id_map /\ pre' = <<l.index, l.id_map>>
    /\ pc' = "idle"
    /\ cur' = NoCall
    /\ last' = [Ended("index", cur.doc_id, "interrupted") EXCEPT !.error = pc]
    /\ UNCHANGED <<appVars, docVars, chunk_vectors, chunks_fts, kgVars,
                   rb, rb_rows, observed, vs_last>>

\* remove_document(doc_id); failAt names the store call that raises, if any.
RemoveDocument(d, failAt) ==
    /\ pc = "idle" /\ rb = "idle"
    /\ LET ids == ChunkIdsOfDocument(chunks, d)
           cs == SeqRange(ids)
           existed == d \in DOMAIN documents
           v == IF existed /\ ids # <<>> /\ failAt # "vectors"
                THEN DeleteVectors(index, id_map, chunk_vectors, dimension, cs)
                ELSE [index |-> index, id_map |-> id_map, rows |-> chunk_vectors]
           ftsDone == existed /\ ids # <<>> /\ failAt \notin {"vectors", "fts"}
           kgDone == existed /\ ids # <<>> /\ failAt = "none"
           st == IF kgDone
                 THEN DeleteEntitiesOf(KG, ids, 1, {<<"entities", j>> : j \in DOMAIN ids})
                 ELSE KG
       IN /\ failAt # "none" => existed /\ ids # <<>>
          /\ Spend(IF failAt = "none" THEN 0 ELSE 1)
          /\ documents' = IF existed THEN DeleteDocumentRow(documents, d) ELSE documents
          /\ chunks' = IF existed THEN CascadeChunks(chunks, d) ELSE chunks
          /\ index' = v.index
          /\ id_map' = v.id_map
          /\ chunk_vectors' = v.rows
          /\ chunks_fts' = IF ftsDone THEN DeleteChunksBatch(chunks_fts, cs) ELSE chunks_fts
          /\ graph_nodes' = st.nodes
          /\ chunk_edges' = st.edges
          /\ next_node_id' = st.next
          /\ last' = [Ended("remove", d,
                            IF ~existed THEN "false"
                            ELSE IF failAt = "none" THEN "true" ELSE "raised") EXCEPT
                        !.error = failAt,
                        !.existed = existed,
                        !.filename = IF existed THEN documents[d] ELSE "none",
                        !.was_indexed = cs # {} /\ cs \subseteq MemIds
                                        /\ cs \subseteq FtsIds /\ cs \subseteq EdgeIds]
    /\ pre' = <<index', id_map'>>
    /\ UNCHANGED <<appVars, next_doc, pc, cur, rb, rb_rows, observed, vs_last>>

\* ------------------------------------------------------- service boundary
\* Optional fields: None, or a one-element sequence holding the value.
None == <<>>
Some(x) == <<x>>

\* Python truthiness of an optional list
Truthy(opt) == opt # None /\ opt[1] # <<>>

\* A validator that lets a request name both modes.
ValidateSearchModeMixed(req) ==
    LET has_freeform == req.query # None
        has_structured == req.required_keywords # None \/ req.optional_keywords # None
    IN IF ~has_freeform /\ ~has_structured THEN "no_mode"
       ELSE IF has_structured /\ ~Truthy(req.required_keywords)
                              /\ ~Truthy(req.optional_keywords) THEN "no_keywords"
       ELSE "ok"

\* KeywordSearchRequest.validate_search_mode
ValidateSearchMode(req) ==
    LET has_freeform == req.query # None
        has_structured == req.required_keywords # None \/ req.optional_keywords # None
    IN IF ~has_freeform /\ ~has_structured THEN "no_mode"
       ELSE IF has_freeform /\ has_structured THEN "mixed"
       ELSE IF has_structured /\ ~Truthy(req.required_keywords)
                              /\ ~Truthy(req.optional_keywords) THEN "no_keywords"
       ELSE IF has_freeform /\ req.exclude_keywords # None THEN "exclude_keywords"
       ELSE IF has_structured /\ req.exclude_terms # None THEN "exclude_terms"
       ELSE IF has_structured /\ req.exact_match THEN "exact_match"
       ELSE "ok"

Request(q, et, em, rk, ok, ek, k) ==
    [query |-> q, exclude_terms |-> et, exact_match |-> em,
     required_keywords |-> rk, optional_keywords |-> ok, exclude_keywords |-> ek,
     top_k |-> k]

\* Request bodies sent to POST /search/keyword (top_k within its field range).
QueryInputs ==
    {<<QUOTE, "machine", "learning", QUOTE>>, <<"machine", "learning">>,
     <<"machine", "AND", "deep">>, <<"machine", "OR", "deep">>,
     <<"learning", "NOT", "machine">>, <<"AND">>, <<>>}

TermLists == {None, Some(<< <<"deep">> >>)}
RequiredLists == {None, Some(<<>>), Some(<< <<"learning">> >>)}
OptionalLists == {None, Some(<<>>), Some(<< <<"machine">>, <<"deep">> >>)}
TopKs == {1, MaxK}

KeywordRequests ==
    {Request(Some(q), et, em, None, None, None, k) :
        q \in QueryInputs, et \in TermLists, em \in BOOLEAN, k \in TopKs}
    \cup {Request(None, None, FALSE, rk, ok, ek, k) :
        rk \in RequiredLists, ok \in OptionalLists, ek \in TermLists, k \in TopKs}
    \cup {Request(Some(<<"machine">>), None, FALSE, rk, None, ek, 1) :
        rk \in RequiredLists, ek \in TermLists}
    \cup {Request(None, et, em, Some(<< <<"learning">> >>), None, None, 1) :
        et \in TermLists, em \in BOOLEAN}

\* keyword_search lines 92-101: hits whose chunk or document is missing are
\* skipped.
Enriched(hits) ==
    SelectSeq(hits, LAMBDA c : \E r \in chunks :
                                   r.id = c /\ r.document_id \in DOMAIN documents)

\* POST /search/keyword: a body that fails validation is answered 422 by the
\* framework before the route runs; the route hands request.query to
\* KeywordSearcher.search whatever the mode; a query of None makes the
\* sanitiser raise AttributeError; ValueError is answered 400, any other
\* exception 500.
KeywordSearchRoute(req) ==
    /\ pc = "idle" /\ rb = "idle"
    /\ LET valid == ValidateSearchMode(req) = "ok"
           crashed == req.query = None
           r == IF valid /\ ~crashed
                THEN KwSearch(chunks_fts, req.query[1], req.top_k,
                              IF req.exclude_terms = None THEN <<>> ELSE req.exclude_terms[1],
                              req.exact_match, TRUE)
                ELSE [raised |-> "none", hits |-> <<>>]
       IN last' = [op |-> "keyword_search", request |-> req,
                   route_ran |-> valid,
                   status |-> IF ~valid THEN 422
                              ELSE IF crashed THEN 500
                              ELSE IF r.raised = "ValueError" THEN 400
                              ELSE 200,
                   results |-> IF valid /\ ~crashed /\ r.raised = "none"
                               THEN Enriched(r.hits) ELSE <<>>]
    /\ UNCHANGED <<faults, appVars, docVars, vecVars, chunks_fts, kgVars, pc, cur, vsVars>>

\* POST /documents/add for a path that does not exist: 404 before the
\* Indexer is called.
AddMissingFile(f) ==
    /\ pc = "idle" /\ rb = "idle"
    /\ last' = [Ended("index", 0, "no_file") EXCEPT !.filename = f]
    /\ UNCHANGED <<faults, appVars, docVars, vecVars, chunks_fts, kgVars, pc, cur, vsVars>>

\* A file name no loader is registered for.
UnsupportedFiles == {"c.bin"}

\* index_document lines 79, registry lines 81-86: no loader, ValueError
\* before anything is stored.
IndexUnsupported(f) ==
    /\ pc = "idle" /\ rb = "idle"
    /\ ~HasFilename(documents, f)
    /\ last' = [Ended("index", 0, "unsupported") EXCEPT !.filename = f]
    /\ UNCHANGED <<faults, appVars, docVars, vecVars, chunks_fts, kgVars, pc, cur, vsVars>>

\* --------------------------------------------------- GLiNERBatchProcessor
\* str.lower() on a label
LowerLabel(l) == IF l = "Person" THEN "person" ELSE l

\* s[:n] and s[n:]
Take(s, n) == SubSeq(s, 1, Min(n, Len(s)))
Drop(s, n) == SubSeq(s, Min(n, Len(s)) + 1, Len(s))

\* _batch_labels lines 76-86: the loop over the remaining user labels; a
\* rest of fewer than five labels is appended to the batch before it.
RECURSIVE UserBatches(_, _)
UserBatches(remaining, max) ==
    IF remaining = <<>> THEN <<>>
    ELSE LET batch == Take(remaining, max)
             rest == Drop(remaining, max)
         IN IF rest # <<>> /\ Len(rest) < 5
            THEN <<batch \o rest>>
            ELSE <<batch>> \o UserBatches(rest, max)

\* _batch_labels(default_labels, user_labels) with max = max_labels_per_pass
BatchLabels(default_labels, user_labels, max) ==
    LET first == IF default_labels # <<>> THEN <<Take(default_labels, max)>> ELSE <<>>
        default_set == {LowerLabel(default_labels[i]) : i \in DOMAIN default_labels}
        unique_user_labels ==
            SelectSeq(user_labels, LAMBDA l : LowerLabel(l) \notin default_set)
    IN first \o UserBatches(unique_user_labels, max)

DefaultLabelLists == {<<>>, <<"person">>, <<"person", "org", "place">>}

UserLabelLists == UNION {[1..n -> {"Person", "date"}] : n \in 0..MaxLabels}

LabelInputs ==
    {[op |-> "batch_labels", default_labels |-> d, user_labels |-> u,
      max_labels_per_pass |-> m] :
        d \in DefaultLabelLists, u \in UserLabelLists, m \in 1..MaxPass}

\* process_chunks line 114
BatchLabelsCall ==
    /\ cur.op = "batch_labels" /\ last = NoCall
    /\ last' = [op |-> "batch_labels",
                batches |-> BatchLabels(cur.default_labels, cur.user_labels,
                                        cur.max_labels_per_pass)]
    /\ UNCHANGED <<faults, appVars, docVars, vecVars, chunks_fts, kgVars, pc, cur, vsVars>>

\* ---------------------------------------------------------------- Searcher
\* A filter that lets every hit through.
SurvivesAlways(hit, docs, rows, min_score) == TRUE

\* Searcher.search lines 108-119: the hit passes the threshold when one is
\* given, get_chunk finds its chunk and get_document finds the chunk's parent.
Survives(hit, docs, rows, min_score) ==
    /\ ~(min_score # None /\ hit[2] < min_score[1])
    /\ \E r \in rows : r.id = hit[1] /\ DocumentExists(docs, r.document_id)

\* lines 121-131
SearchResult(hit, docs, rows) ==
    LET chunk == CHOOSE r \in rows : r.id = hit[1]
    IN [chunk_id |-> hit[1], similarity_score |-> hit[2],
        document_id |-> chunk.document_id,
        document_filename |-> docs[chunk.document_id],
        chunk_index |-> chunk.chunk_index]

\* Searcher.search: [] when the index is empty, otherwise the enriched hits
\* of VectorStore.search that survive, in its order.
SearcherSearch(idx, idm, dim, docs, rows, query, top_k, min_score) ==
    IF Len(idx) = 0 THEN <<>>
    ELSE LET raw == Search(idx, idm, dim, query, top_k)
             kept == SelectSeq(raw, LAMBDA h : Survives(h, docs, rows, min_score))
         IN [i \in DOMAIN kept |-> SearchResult(kept[i], docs, rows)]

\* embed_query's vectors for the queries callers pass, and their thresholds:
\* none, and the score of an exact match.
SearchQueries == {<<3, 4>>, <<4, 3>>}
MinScores == {None, Some(25)}

SearchCall(q, k, ms) ==
    /\ pc = "idle" /\ rb = "idle"
    /\ last' = [op |-> "search", query |-> q, top_k |-> k, min_score |-> ms,
                raw |-> Search(index, id_map, dimension, q, k),
                results |-> SearcherSearch(index, id_map, dimension, documents,
                                           chunks, q, k, ms)]
    /\ UNCHANGED <<faults, appVars, docVars, vecVars, chunks_fts, kgVars, pc, cur, vsVars>>

\* ------------------------------------- POST /documents/add and /add-batch
\* One entry of a request: the path, whether a file is there, and whether
\* splitter_overrides is given.
BatchDocumentItem(file_path, exists, splitter_overrides) ==
    [file_path |-> file_path, exists |-> exists,
     splitter_overrides |-> splitter_overrides]

BatchDocumentItems ==
    {BatchDocumentItem("a.txt", TRUE, TRUE), BatchDocumentItem("b.txt", TRUE, FALSE),
     BatchDocumentItem("b.txt", FALSE, FALSE)}

BatchRequests ==
    {[documents |-> ds, fail_fast |-> ff] :
        ds \in UNION {[1..n -> BatchDocumentItems] : n \in 0..MaxBatch},
        ff \in BOOLEAN}

\* The number of chunks the Indexer's current splitter cuts a file into: the
\* database's configured splitter, or one built from a request's overrides.
SplitWith(s, f) == IF s = "configured" THEN ChunksOf(f) ELSE 1

BatchDocumentResult(item, status, d) ==
    [file_path |-> item.file_path, status |-> status, document_id |-> d]

\* An overall status that ignores the failures.
BatchStatusCompleted(failed) == "completed"

\* line 146
BatchStatus(failed) == IF failed = 0 THEN "completed" ELSE "partial"

\* lines 148-156
BatchAddResponse(req, results, succeeded, failed) ==
    [status |-> BatchStatus(failed), results |-> results,
     summary |-> [total |-> Len(req.documents), succeeded |-> succeeded,
                  failed |-> failed]]

Responded(op, req, response) ==
    [op |-> op, phase |-> "responded", request |-> req, response |-> response]

RouteIdle == IF route.op = "none" THEN TRUE ELSE route.phase = "responded"

\* The end of one pass of the loop: the result is appended and counted; the
\* loop ends after the last entry, or at an error when fail_fast is set, and
\* the response is built.
BatchAdvance(r, result, ok) ==
    LET results == Append(r.results, result)
        succeeded == r.succeeded + (IF ok THEN 1 ELSE 0)
        failed == r.failed + (IF ok THEN 0 ELSE 1)
    IN IF (~ok /\ r.request.fail_fast) \/ r.pos = Len(r.request.documents)
       THEN Responded("add_batch", r.request,
                      BatchAddResponse(r.request, results, succeeded, failed))
       ELSE [r EXCEPT !.results = results, !.succeeded = succeeded,
                      !.failed = failed, !.pos = r.pos + 1, !.phase = "item"]

\* lines 84-88: the request arrives; an empty list is answered at once.
BatchStart(req) ==
    /\ RouteIdle /\ pc = "idle" /\ rb = "idle"
    /\ route' = IF req.documents = <<>>
                THEN Responded("add_batch", req, BatchAddResponse(req, <<>>, 0, 0))
                ELSE [op |-> "add_batch", phase |-> "item", request |-> req, pos |-> 1,
                      results |-> <<>>, succeeded |-> 0, failed |-> 0,
                      original_splitter |-> None]
    /\ UNCHANGED <<faults, dimension, splitter, context, poll, docVars, vecVars,
                   chunks_fts, kgVars, idxVars, vsVars>>

\* lines 90-117: a missing file is an error entry; otherwise the overrides,
\* when given, replace the Indexer's splitter and index_document is called.
BatchItemBegin ==
    /\ route.op = "add_batch" /\ route.phase = "item"
    /\ LET item == route.request.documents[route.pos]
       IN IF ~item.exists
          THEN /\ route' = BatchAdvance(route, BatchDocumentResult(item, "error", 0), FALSE)
               /\ UNCHANGED <<splitter, last>>
          ELSE /\ route' = [route EXCEPT
                              !.phase = "index",
                              !.original_splitter =
                                  IF item.splitter_overrides THEN Some(splitter) ELSE None]
               /\ splitter' = IF item.splitter_overrides THEN "override" ELSE splitter
               /\ last' = NoCall
    /\ UNCHANGED <<faults, dimension, context, poll, docVars, vecVars, chunks_fts,
                   kgVars, pc, cur, vsVars>>

\* lines 122-143: index_document returned (the splitter is put back when one
\* was saved, a success entry is appended) or raised (an error entry).
BatchItemEnd ==
    /\ route.op = "add_batch" /\ route.phase = "index"
    /\ pc = "idle" /\ last # NoCall
    /\ LET item == route.request.documents[route.pos]
           ok == last.result = "returned"
       IN /\ splitter' = IF ok /\ route.original_splitter # None
                         THEN route.original_splitter[1] ELSE splitter
          /\ route' = BatchAdvance(route,
                                   BatchDocumentResult(item, IF ok THEN "success" ELSE "error",
                                                       IF ok THEN last.doc ELSE 0),
                                   ok)
    /\ UNCHANGED <<faults, dimension, context, poll, docVars, vecVars, chunks_fts,
                   kgVars, idxVars, vsVars>>

AddDocumentRequests == BatchDocumentItems \cup {BatchDocumentItem("a.txt", TRUE, FALSE)}

\* add_document lines 32-50: 404 for a missing file; otherwise the overrides,
\* when given, replace the Indexer's splitter and index_document is called.
AddDocumentBegin(req) ==
    /\ RouteIdle /\ pc = "idle" /\ rb = "idle"
    /\ IF ~req.exists
       THEN /\ route' = Responded("add", req, [status |-> 404, document_id |-> 0])
            /\ UNCHANGED <<splitter, last>>
       ELSE /\ route' = [op |-> "add", phase |-> "index", request |-> req,
                         original_splitter |->
                             IF req.splitter_overrides THEN Some(splitter) ELSE None]
            /\ splitter' = IF req.splitter_overrides THEN "override" ELSE splitter
            /\ last' = NoCall
    /\ UNCHANGED <<faults, dimension, context, poll, docVars, vecVars, chunks_fts,
                   kgVars, pc, cur, vsVars>>

\* add_document lines 53-68: index_document returned (the splitter is put
\* back when one was saved, 200) or raised (500).
AddDocumentEnd ==
    /\ route.op = "add" /\ route.phase = "index"
    /\ pc = "idle" /\ last # NoCall
    /\ LET ok == last.result = "returned"
       IN /\ splitter' = IF ok /\ route.original_splitter # None
                         THEN route.original_splitter[1] ELSE splitter
          /\ route' = Responded("add", route.request,
                                [status |-> AddDocumentStatus(last.result),
                                 document_id |-> IF ok THEN last.doc ELSE 0])
    /\ UNCHANGED <<faults, dimension, context, poll, docVars, vecVars, chunks_fts,
                   kgVars, idxVars, vsVars>>

\* The file the running route passes to index_document.
RouteFile ==
    IF route.op = "add_batch" THEN route.request.documents[route.pos].file_path
    ELSE route.request.file_path

RouteCalls == route.op \in {"add", "add_batch"} /\ route.phase = "index" /\ last = NoCall

\* safe_indexer.index_document(file_path, metadata), called by the route
RouteIndexRejected == RouteCalls /\ IndexRejected(RouteFile)

RouteIndexPersist == RouteCalls /\ IndexPersist(RouteFile, SplitWith(splitter, RouteFile))

\* ------------------------------------------- ServerManager.start_server
max_retries == 5

\* What one GET /status of the new process can come to: a 200 response,
\* another response, or requests.RequestException.
StatusOutcomes == {"200", "non200", "exception"}

\* lines 104-157: the process is started; when it has died within the first
\* three seconds RuntimeError is raised, otherwise polling begins.
StartServer(alive) ==
    /\ IF poll.op = "none" THEN TRUE ELSE poll.done
    /\ pc = "idle" /\ rb = "idle" /\ RouteIdle
    /\ poll' = [op |-> "start_server", attempt |-> 0, log |-> <<>>,
                done |-> ~alive, result |-> IF alive THEN "none" ELSE "raised"]
    /\ UNCHANGED <<faults, dimension, splitter, route, context, docVars, vecVars,
                   chunks_fts, kgVars, idxVars, vsVars>>

\* lines 159-190, one pass of the loop: the request; break on 200; after an
\* exception time.sleep(retry_delay) unless this was the last attempt.  When
\* the loop ends the state is saved and True is returned.
PollAttempt(outcome) ==
    /\ poll.op = "start_server" /\ ~poll.done
    /\ LET slept == outcome = "exception" /\ poll.attempt < max_retries - 1
           over == outcome = "200" \/ poll.attempt + 1 = max_retries
       IN poll' = [poll EXCEPT
                     !.log = poll.log \o <<outcome>>
                             \o (IF slept THEN <<"sleep">> ELSE <<>>),
                     !.attempt = poll.attempt + 1,
                     !.done = over,
                     !.result = IF over THEN "true" ELSE "none"]
    /\ UNCHANGED <<faults, dimension, splitter, route, context, docVars, vecVars,
                   chunks_fts, kgVars, idxVars, vsVars>>

\* ------------------------- DocumentStore and KeywordSearcher, called directly
\* DocumentStore.delete_document(doc_id)
DSDeleteDocument(d) ==
    /\ pc = "idle" /\ rb = "idle"
    /\ LET found == DocumentExists(documents, d)
       IN /\ documents' = IF found THEN DeleteDocumentRow(documents, d) ELSE documents
          /\ chunks' = IF found THEN CascadeChunks(chunks, d) ELSE chunks
          /\ last' = [op |-> "delete_document", doc |-> d, returned |-> found]
    /\ UNCHANGED <<faults, appVars, next_doc, vecVars, chunks_fts, kgVars, pc, cur, vsVars>>

\* Chunk texts callers pass to index_chunk.
KwContents == {<<"a.txt", 0>>}

KwEntries ==
    LET one == {FtsRow(c, t) : c \in VSIds, t \in KwContents}
    IN {<<e>> : e \in one} \cup {<<e1, e2>> : e1 \in one, e2 \in one}

\* KeywordSearcher.index_chunk(chunk_id, content)
KWIndexChunk(c, content) ==
    /\ pc = "idle" /\ rb = "idle"
    /\ Len(chunks_fts) < MaxFts
    /\ chunks_fts' = IndexChunk(chunks_fts, c, content)
    /\ last' = [op |-> "index_chunk", ids |-> {c}]
    /\ UNCHANGED <<faults, appVars, docVars, vecVars, kgVars, pc, cur, vsVars>>

\* KeywordSearcher.index_chunks_batch(chunks)
KWIndexChunksBatch(entries) ==
    /\ pc = "idle" /\ rb = "idle"
    /\ Len(chunks_fts) + Len(entries) <= MaxFts
    /\ chunks_fts' = IndexChunksBatch(chunks_fts, entries)
    /\ last' = [op |-> "index_chunks_batch", ids |-> RowIds(entries)]
    /\ UNCHANGED <<faults, appVars, docVars, vecVars, kgVars, pc, cur, vsVars>>

\* KeywordSearcher.delete_chunk(chunk_id)
KWDeleteChunk(c) ==
    /\ pc = "idle" /\ rb = "idle"
    /\ chunks_fts' = DeleteChunk(chunks_fts, c)
    /\ last' = [op |-> "delete_chunk", ids |-> {c}]
    /\ UNCHANGED <<faults, appVars, docVars, vecVars, kgVars, pc, cur, vsVars>>

\* KeywordSearcher.delete_chunks_batch(chunk_ids)
KWDeleteChunksBatch(cs) ==
    /\ pc = "idle" /\ rb = "idle"
    /\ chunks_fts' = DeleteChunksBatch(chunks_fts, cs)
    /\ last' = [op |-> "delete_chunks_batch", ids |-> cs]
    /\ UNCHANGED <<faults, appVars, docVars, vecVars, kgVars, pc, cur, vsVars>>

\* KeywordSearcher.rebuild_index()
KWRebuildIndex ==
    /\ pc = "idle" /\ rb = "idle"
    /\ chunks_fts' = RebuildIndex(chunks)
    /\ last' = [op |-> "rebuild_index", ids |-> {}]
    /\ UNCHANGED <<faults, appVars, docVars, vecVars, kgVars, pc, cur, vsVars>>

\* ------------------------------------- knowledge graph, called directly
\* Entity lists callers pass to add_entities.
EntityLists == {<<>>, ExtractedEntities("a.txt", 0), ExtractedEntities("a.txt", 1)}

\* Lists with one entity under two surface forms, under two labels, and
\* twice in one list.
MentionLists ==
    {<<Entity(<<"C", "a", "t">>, "animal", 90)>>,
     <<Entity(<<" ", "c", "a", "t", " ">>, "animal", 70),
       Entity(<<"C", "a", "t">>, "brand", 80)>>,
     <<Entity(<<"c", "a", "t">>, "animal", 50),
       Entity(<<" ", "C", "a", "t">>, "animal", 60)>>}

Sources == {"gliner", "user"}

\* The run stays within the frequency and node-id bounds.
WithinKG(st) ==
    /\ \A n \in st.nodes : n.frequency <= MaxFreq
    /\ st.next <= MaxNodeId + 1

\* EntityStore.add_entities(chunk_id, entities, source): returns len(entities)
ESAddEntities(c, ents, source) ==
    /\ pc = "idle" /\ rb = "idle"
    /\ LET st == AddEntities(KG, c, ents, Len(ents), source)
       IN /\ WithinKG(st)
          /\ graph_nodes' = st.nodes
          /\ chunk_edges' = st.edges
          /\ next_node_id' = st.next
    /\ last' = [op |-> "add_entities", chunk |-> c, returned |-> Len(ents),
                entities |-> ents, source |-> source]
    /\ UNCHANGED <<faults, appVars, docVars, vecVars, chunks_fts, pc, cur, vsVars>>

\* EntityStore.delete_chunk_entities(chunk_id): returns the rowcount of the
\* edge delete.
ESDeleteChunkEntities(c) ==
    /\ pc = "idle" /\ rb = "idle"
    /\ LET st == DeleteChunkEntities(KG, c)
       IN /\ graph_nodes' = st.nodes
          /\ chunk_edges' = st.edges
          /\ next_node_id' = st.next
    /\ last' = [op |-> "delete_chunk_entities", chunk |-> c,
                returned |-> Cardinality({x \in chunk_edges : x.chunk_id = c})]
    /\ UNCHANGED <<faults, appVars, docVars, vecVars, chunks_fts, pc, cur, vsVars>>

\* list_documents: ORDER BY created_at DESC
RECURSIVE DescIds(_)
DescIds(S) ==
    IF S = {} THEN <<>>
    ELSE LET m == CHOOSE x \in S : \A y \in S : y <= x
         IN <<m>> \o DescIds(S \ {m})

\* reprocess_entities lines 211-216 over the chunks of one document: the
\* extractor reads each chunk's stored content; delete_chunk_entities, then
\* add_entities.
RECURSIVE ReprocessChunks(_, _, _)
ReprocessChunks(st, rows, ids) ==
    IF ids = <<>> THEN st
    ELSE LET c == Head(ids)
             r == CHOOSE x \in rows : x.id = c
             ents == ExtractedEntities(r.content[1], r.content[2])
         IN ReprocessChunks(
                AddEntities(DeleteChunkEntities(st, c), c, ents, Len(ents), "gliner"),
                rows, Tail(ids))

\* lines 185-216: the loop over doc_ids
RECURSIVE ReprocessDocs(_, _, _)
ReprocessDocs(st, rows, ds) ==
    IF ds = <<>> THEN st
    ELSE ReprocessDocs(ReprocessChunks(st, rows, ChunkIdsOfDocument(rows, Head(ds))),
                       rows, Tail(ds))

\* ------------------------------------------------------- GLiNERSubChunker
\* A text is a sequence of characters: 0 is a whitespace character, k > 0
\* is the one-character word k.  TextOf(n, gap, pad) holds the words 1..n
\* with gap spaces between neighbours and pad spaces at both ends.
Spaces(k) == [i \in 1..k |-> 0]

RECURSIVE Joined(_, _)
Joined(n, gap) ==
    IF n = 0 THEN <<>>
    ELSE IF n = 1 THEN <<1>>
    ELSE Joined(n - 1, gap) \o Spaces(gap) \o <<n>>

TextOf(n, gap, pad) == Spaces(pad) \o Joined(n, gap) \o Spaces(pad)

Texts == {TextOf(n, gap, pad) : n \in 0..MaxWords, gap \in 1..2, pad \in 0..1}

\* str.split(): the words of a text, whitespace dropped.  Every word of
\* Texts is one character, so the words are the non-blank characters.
StrSplit(text) == SelectSeq(text, LAMBDA ch : ch # 0)

\* " ".join(words)
RECURSIVE StrJoin(_)
StrJoin(words) ==
    IF words = <<>> THEN <<>>
    ELSE IF Len(words) = 1 THEN words
    ELSE StrJoin(SubSeq(words, 1, Len(words) - 1)) \o <<0, words[Len(words)]>>

\* words[a:b] of Python for any integers a and b: a negative index counts
\* from the end, and both ends are clamped to the list.
PyIndex(n, i) == IF i < 0 THEN (IF n + i < 0 THEN 0 ELSE n + i) ELSE Min(i, n)
PySlice(words, a, b) ==
    SubSeq(words, PyIndex(Len(words), a) + 1, PyIndex(Len(words), b))

SubChunk(content, start_char, end_char) ==
    [content |-> content, start_char |-> start_char, end_char |-> end_char]

\* Calls of split on a sub-chunker built with word_size and overlap as the
\* gliner section of the database configuration gives them.
SplitInputs ==
    {[op |-> "split", text |-> text, word_size |-> word_size,
      overlap |-> overlap, phase |-> "called", start_word_idx |-> 0,
      sub_chunks |-> <<>>] :
        text \in Texts, word_size \in 1..MaxWordSize, overlap \in 0..MaxOverlap}

\* The longest list a run of the model may build: longer than the list of
\* any call whose start index moves forward by at least one word.
MaxSubChunks == MaxWords + 2

\* split up to the loop: an empty or blank text returns [], a text of at
\* most word_size words returns itself as the only sub-chunk.
SplitCall ==
    /\ cur.op = "split" /\ cur.phase = "called"
    /\ LET words == StrSplit(cur.text)
       IN cur' = IF words = <<>>
                 THEN [cur EXCEPT !.phase = "returned"]
                 ELSE IF Len(words) <= cur.word_size
                 THEN [cur EXCEPT !.phase = "returned",
                                  !.sub_chunks =
                                      <<SubChunk(cur.text, 0, Len(cur.text))>>]
                 ELSE [cur EXCEPT !.phase = "loop"]
    /\ UNCHANGED <<faults, appVars, docVars, vecVars, chunks_fts, kgVars, pc,
                   last, vsVars>>

\* One pass of the while loop.
SplitIterate ==
    /\ cur.op = "split" /\ cur.phase = "loop"
    /\ Len(cur.sub_chunks) < MaxSubChunks
    /\ LET words == StrSplit(cur.text)
           start_word_idx == cur.start_word_idx
           end_word_idx == Min(start_word_idx + cur.word_size, Len(words))
           chunk_text == StrJoin(PySlice(words, start_word_idx, end_word_idx))
           words_before == PySlice(words, 0, start_word_idx)
           start_char == Len(StrJoin(words_before))
                            + (IF words_before # <<>> THEN 1 ELSE 0)
           appended == Append(cur.sub_chunks,
                              SubChunk(chunk_text, start_char,
                                       start_char + Len(chunk_text)))
       IN cur' = IF ~(start_word_idx < Len(words))
                 THEN [cur EXCEPT !.phase = "returned"]
                 ELSE IF end_word_idx >= Len(words)
                 THEN [cur EXCEPT !.phase = "returned", !.sub_chunks = appended]
                 ELSE [cur EXCEPT !.sub_chunks = appended,
                                  !.start_word_idx = end_word_idx - cur.overlap]
    /\ UNCHANGED <<faults, appVars, docVars, vecVars, chunks_fts, kgVars, pc,
                   last, vsVars>>

\* -------------------------------------------------------------- RAGContext
\* Databases known to the configuration, and a name that was never created.
Databases == {"A", "B", "C"}
DatabaseNames == Databases \cup {"Z"}

\* config.yaml of a database: the embedding model key (provider:model) and
\* the gliner section.
DatabaseConfig(db) ==
    CASE db = "A" -> [embedding |-> "local:gemma", gliner_enabled |-> TRUE,
                      model_size |-> "multi"]
      [] db = "B" -> [embedding |-> "openai:small", gliner_enabled |-> TRUE,
                      model_size |-> "multi"]
      [] OTHER    -> [embedding |-> "local:gemma", gliner_enabled |-> FALSE,
                      model_size |-> "multi"]

\* The statements of load_database that can raise, in program order; "none"
\* is the call in which nothing raises.
LoadSteps ==
    <<"config", "embedding", "document_store", "vector_store",
      "keyword_searcher", "entity_store", "gliner", "indexer", "set_active",
      "none">>

StepNo(step) == CHOOSE i \in DOMAIN LoadSteps : LoadSteps[i] = step

\* The stores a freshly built Indexer or Searcher holds: those the context
\* holds at that moment.
IndexerOf(c) ==
    [document_store |-> c.document_store, vector_store |-> c.vector_store,
     embedding_provider |-> c.embedding_provider,
     keyword_searcher |-> c.keyword_searcher, entity_store |-> c.entity_store,
     gliner_processor |-> c.gliner_processor]

SearcherOf(c) ==
    [document_store |-> c.document_store, vector_store |-> c.vector_store,
     embedding_provider |-> c.embedding_provider]

\* Whether load_database(db_name) creates an embedding provider, and whether
\* it builds the GLiNER objects.
CreatesProvider(c, db_name) ==
    \/ c.loaded_embedding_model # DatabaseConfig(db_name).embedding
    \/ c.embedding_provider = "none"

LoadsGliner(c, db_name) ==
    /\ DatabaseConfig(db_name).gliner_enabled
    /\ c.loaded_gliner_model # DatabaseConfig(db_name).model_size

\* Whether the statement failAt is executed by load_database(db_name).
CanFailAt(c, db_name, failAt) ==
    CASE failAt = "embedding"    -> CreatesProvider(c, db_name)
      [] failAt = "entity_store" -> DatabaseConfig(db_name).gliner_enabled
      [] failAt = "gliner"       -> LoadsGliner(c, db_name)
      [] OTHER                   -> TRUE

\* The fields of the context after load_database(db_name) in which the
\* statement failAt raises: every assignment before it has been made, none
\* after it, and the except block restores nothing.
LoadDatabase(c, db_name, failAt) ==
    LET cfg == DatabaseConfig(db_name)
        Done(step) == StepNo(step) < StepNo(failAt)
        c1 == IF Done("config") THEN [c EXCEPT !.db_config = db_name] ELSE c
        c2 == IF ~Done("config") \/ ~CreatesProvider(c, db_name) THEN c1
              ELSE IF Done("embedding")
              THEN [c1 EXCEPT !.embedding_provider = cfg.embedding,
                              !.loaded_embedding_model = cfg.embedding]
              ELSE [c1 EXCEPT !.embedding_provider = "none",
                              !.loaded_embedding_model =
                                  IF @ # cfg.embedding THEN "none" ELSE @]
        c3 == IF Done("document_store")
              THEN [c2 EXCEPT !.document_store = db_name] ELSE c2
        c4 == IF Done("vector_store")
              THEN [c3 EXCEPT !.vector_store = db_name] ELSE c3
        c5 == IF Done("keyword_searcher")
              THEN [c4 EXCEPT !.keyword_searcher = db_name] ELSE c4
        c6 == IF ~Done("keyword_searcher") THEN c5
              ELSE IF ~cfg.gliner_enabled
              THEN [c5 EXCEPT !.entity_store = "none",
                              !.gliner_processor = "none",
                              !.loaded_gliner_model = "none"]
              ELSE IF Done("entity_store")
              THEN [c5 EXCEPT !.entity_store = db_name] ELSE c5
        c7 == IF Done("gliner") /\ LoadsGliner(c, db_name)
              THEN [c6 EXCEPT !.gliner_processor = db_name,
                              !.loaded_gliner_model = cfg.model_size]
              ELSE c6
    IN IF Done("indexer")
       THEN [c7 EXCEPT !.indexer = IndexerOf(c7), !.searcher = SearcherOf(c7),
                       !.active_db_name = db_name]
       ELSE c7

\* The context refers to database a in every field: its configuration, its
\* stores, and an indexer and a searcher built on those stores.
RefersTo(c, a) ==
    /\ c.active_db_name = a
    /\ c.db_config = a
    /\ c.document_store = a
    /\ c.vector_store = a
    /\ c.keyword_searcher = a
    /\ c.entity_store = (IF DatabaseConfig(a).gliner_enabled THEN a ELSE "none")
    /\ c.indexer = IndexerOf(c)
    /\ c.searcher = SearcherOf(c)

\* The database the context refers to in every field, "none" when there is
\* no such database.
Loaded(c) ==
    IF \E a \in Databases : RefersTo(c, a)
    THEN CHOOSE a \in Databases : RefersTo(c, a) ELSE "none"

\* POST /admin/reload: 200 when load_database returns, 500 with the message
\* of whatever it raised.  An unknown name raises before the first
\* assignment.  `loaded` is the database the context referred to before.
Reload(database, failAt) ==
    /\ IF database \in Databases THEN CanFailAt(context, database, failAt)
       ELSE failAt = "none"
    /\ LET known == database \in Databases
           after == IF known THEN LoadDatabase(context, database, failAt)
                    ELSE context
       IN /\ context' = after
          /\ last' = [op |-> "reload", database |-> database,
                      loaded |-> Loaded(context),
                      status |-> IF known /\ failAt = "none" THEN 200 ELSE 500]
    /\ UNCHANGED <<faults, dimension, splitter, route, poll, docVars, vecVars,
                   chunks_fts, kgVars, pc, cur, vsVars>>

\* POST /kg/reprocess with document_id = d, or with none (d = 0): every
\* document of list_documents.
Reprocess(d) ==
    /\ pc = "idle" /\ rb = "idle"
    /\ LET ds == IF d # 0 THEN <<d>> ELSE DescIds(DOMAIN documents)
           st == ReprocessDocs(KG, chunks, ds)
       IN /\ WithinKG(st)
          /\ graph_nodes' = st.nodes
          /\ chunk_edges' = st.edges
          /\ next_node_id' = st.next
          /\ last' = [op |-> "reprocess", doc |-> d, documents_processed |-> Len(ds)]
    /\ UNCHANGED <<faults, appVars, docVars, vecVars, chunks_fts, pc, cur, vsVars>>

Next ==
    \/ \E f \in Files : IndexRejected(f)
    \/ \E f \in Files : IndexPersist(f, ChunksOf(f))
    \/ \E ok \in BOOLEAN : Embed(ok)
    \/ \E ok \in BOOLEAN : AddBatch(ok)
    \/ \E ok \in BOOLEAN : IndexFts(ok)
    \/ \E ok \in BOOLEAN : Extract(ok)
    \/ \E k \in 0..2 : StoreEntities(k)
    \/ IndexReturn
    \/ \E fails \in SUBSET ({<<"entities", j>> : j \in 1..MaxChunks}
                            \cup {<<"fts", 0>>, <<"vectors", 0>>, <<"document", 0>>}) :
          Rollback(fails)
    \/ Interrupt
    \/ \E d \in 1..MaxDocs, failAt \in {"none", "vectors", "fts", "entities"} :
          RemoveDocument(d, failAt)

Spec == Init /\ [][Next]_vars

\* Batches passed to add_batch: two chunk ids (possibly the same one twice)
\* with one or two vectors of one width.
Batches == {<<c1, c2>> : c1 \in VSIds, c2 \in VSIds}
BatchVecs == VecInputs \ {<<6, 8>>}
VecBatches(n) == {s \in [1..n -> BatchVecs] : \A i \in 1..n : Len(s[i]) = Len(s[1])}

NextVS ==
    \/ \E c \in VSIds, v \in VecInputs : VSAdd(c, v)
    \/ \E ids \in Batches : \E n \in 1..2 : \E vecs \in VecBatches(n) : VSAddBatch(ids, vecs)
    \/ \E cs \in SUBSET VSIds : VSDelete(cs)
    \/ RebuildResetIndex
    \/ RebuildResetMap
    \/ RebuildAddVectors
    \/ RebuildSetMap
    \/ VSRestart
    \/ \E q \in Queries(dimension), k \in 1..MaxK : VSSearch(q, k)

SpecVS == Init /\ [][NextVS]_vars

\* One pass of the entity loop that stores every entity of the chunk.
StoreAllEntities == \E k \in 1..2 : StoreEntities(k) /\ pc' = pc

\* Ingestion without failures, the reprocess route and the EntityStore
\* called directly.
NextKG ==
    \/ \E f \in Files : IndexPersist(f, ChunksOf(f))
    \/ Embed(TRUE)
    \/ AddBatch(TRUE)
    \/ IndexFts(TRUE)
    \/ Extract(TRUE)
    \/ StoreAllEntities
    \/ IndexReturn
    \/ \E d \in 0..MaxDocs : Reprocess(d)
    \/ \E c \in VSIds, ents \in EntityLists : ESAddEntities(c, ents, "gliner")
    \/ \E c \in VSIds : ESDeleteChunkEntities(c)

SpecKG == Init /\ [][NextKG]_vars

\* Ingestion and removal without failures, DocumentStore.delete_document and
\* the KeywordSearcher called directly.
NextKW ==
    \/ \E f \in Files : IndexPersist(f, ChunksOf(f))
    \/ Embed(TRUE)
    \/ AddBatch(TRUE)
    \/ IndexFts(TRUE)
    \/ Extract(TRUE)
    \/ StoreAllEntities
    \/ IndexReturn
    \/ \E d \in 1..MaxDocs : RemoveDocument(d, "none")
    \/ \E d \in 1..MaxDocs : DSDeleteDocument(d)
    \/ \E c \in VSIds, t \in KwContents : KWIndexChunk(c, t)
    \/ \E entries \in KwEntries : KWIndexChunksBatch(entries)
    \/ \E c \in VSIds : KWDeleteChunk(c)
    \/ \E cs \in SUBSET VSIds : KWDeleteChunksBatch(cs)
    \/ KWRebuildIndex

SpecKW == Init /\ [][NextKW]_vars

\* Ingestion without failures and the keyword search route.
NextSearch ==
    \/ \E f \in Files : IndexPersist(f, ChunksOf(f))
    \/ Embed(TRUE)
    \/ AddBatch(TRUE)
    \/ IndexFts(TRUE)
    \/ Extract(TRUE)
    \/ StoreAllEntities
    \/ IndexReturn
    \/ \E req \in KeywordRequests : KeywordSearchRoute(req)

SpecSearch == Init /\ [][NextSearch]_vars

\* One request body per answer of the keyword search route.
StatusProbes ==
    {Request(Some(<<"machine">>), None, FALSE, None, None, None, 1),
     Request(Some(<<"AND">>), None, FALSE, None, None, None, 1),
     Request(None, None, FALSE, None, None, None, 1),
     Request(None, None, FALSE, Some(<< <<"learning">> >>), None, None, 1)}

\* The routes of the server: add (with an embedding stage that can fail),
\* remove and keyword search.
NextAPI ==
    \/ \E f \in Files : AddMissingFile(f)
    \/ \E f \in UnsupportedFiles : IndexUnsupported(f)
    \/ \E f \in Files : IndexRejected(f)
    \/ \E f \in Files : IndexPersist(f, ChunksOf(f))
    \/ \E ok \in BOOLEAN : Embed(ok)
    \/ AddBatch(TRUE)
    \/ IndexFts(TRUE)
    \/ Extract(TRUE)
    \/ StoreAllEntities
    \/ IndexReturn
    \/ Rollback({})
    \/ \E d \in 1..MaxDocs : RemoveDocument(d, "none")
    \/ \E req \in StatusProbes : KeywordSearchRoute(req)

SpecAPI == Init /\ [][NextAPI]_vars

\* The add and add-batch routes with an embedding stage that can fail.
NextBatch ==
    \/ \E req \in BatchRequests : BatchStart(req)
    \/ BatchItemBegin
    \/ BatchItemEnd
    \/ \E req \in AddDocumentRequests : AddDocumentBegin(req)
    \/ AddDocumentEnd
    \/ RouteIndexRejected
    \/ RouteIndexPersist
    \/ \E ok \in BOOLEAN : Embed(ok)
    \/ AddBatch(TRUE)
    \/ IndexFts(TRUE)
    \/ Extract(TRUE)
    \/ StoreAllEntities
    \/ IndexReturn
    \/ Rollback({})

SpecBatch == Init /\ [][NextBatch]_vars

\* The server is started and polled until it answers.
NextPoll ==
    \/ \E alive \in BOOLEAN : StartServer(alive)
    \/ \E outcome \in StatusOutcomes : PollAttempt(outcome)

SpecPoll == Init /\ [][NextPoll]_vars

\* The loop is synchronous code: a pass that can be taken is taken.
SpecPollFair == SpecPoll /\ WF_vars(\E outcome \in StatusOutcomes : PollAttempt(outcome))

\* EntityStore.add_entities called with the lists and source tags above.
NextES ==
    \E c \in VSIds, ents \in MentionLists, source \in Sources :
        ESAddEntities(c, ents, source)

SpecES == Init /\ [][NextES]_vars

\* Ingestion, removal with a vector delete that can fail, and semantic search.
NextSearcher ==
    \/ \E f \in Files : IndexPersist(f, ChunksOf(f))
    \/ Embed(TRUE)
    \/ AddBatch(TRUE)
    \/ IndexFts(TRUE)
    \/ Extract(TRUE)
    \/ StoreAllEntities
    \/ IndexReturn
    \/ \E d \in 1..MaxDocs, failAt \in {"none", "vectors"} : RemoveDocument(d, failAt)
    \/ \E q \in SearchQueries, k \in TopKs, ms \in MinScores : SearchCall(q, k, ms)

SpecSearcher == Init /\ [][NextSearcher]_vars

\* A processor configured with a pass size, given its two label lists.
InitLabels == InitRest /\ cur \in LabelInputs

SpecLabels == InitLabels /\ [][BatchLabelsCall]_vars

\* Ingestion whose entity stage can fail part-way, with a rollback whose
\* cleanup steps all succeed.  Nothing else writes to the entity graph.
NextKGFail ==
    \/ \E f \in Files : IndexPersist(f, ChunksOf(f))
    \/ Embed(TRUE)
    \/ AddBatch(TRUE)
    \/ IndexFts(TRUE)
    \/ \E ok \in BOOLEAN : Extract(ok)
    \/ \E k \in 0..2 : StoreEntities(k)
    \/ IndexReturn
    \/ Rollback({})

SpecKGFail == Init /\ [][NextKGFail]_vars

\* Ingestion without failures and removal whose store calls can raise.
NextRemove ==
    \/ \E f \in Files : IndexPersist(f, ChunksOf(f))
    \/ Embed(TRUE)
    \/ AddBatch(TRUE)
    \/ IndexFts(TRUE)
    \/ Extract(TRUE)
    \/ StoreAllEntities
    \/ IndexReturn
    \/ \E d \in 1..MaxDocs, failAt \in {"none", "vectors", "fts", "entities"} :
          RemoveDocument(d, failAt)

SpecRemove == Init /\ [][NextRemove]_vars

\* The admin route alone: any sequence of reloads, each of which may fail at
\* any statement it executes.
NextContext ==
    \E database \in DatabaseNames, failAt \in SeqRange(LoadSteps) :
        Reload(database, failAt)

SpecContext == Init /\ [][NextContext]_vars

\* One call of GLiNERSubChunker.split per behaviour, on any text of Texts
\* and any configured word_size and overlap.  In SpecSplitFair the call is
\* never suspended: a step that can run does run.
InitSplit == InitRest /\ cur \in SplitInputs

NextSplit == SplitCall \/ SplitIterate

SpecSplit == InitSplit /\ [][NextSplit]_vars

SpecSplitFair == SpecSplit /\ WF_vars(NextSplit)

\* ------------------------------------------------------------- properties
\* Chunk ids held by any of the three downstream views.
ViewIds == MemIds \cup RowIds(chunk_vectors) \cup FtsIds \cup EdgeIds

DocGone(d) == d \notin DOMAIN documents /\ \A c \in ViewIds : c[1] # d

RaisedAt(stages) ==
    last.op = "index" /\ last.result = "raised" /\ last.error \in stages

\* C1: when embedding fails after the document was persisted (and the
\* rollback's own store calls succeed), then once index_document has raised
\* the document is not found and none of its chunk ids is in the similarity
\* index, the lexical index or the entity graph.
C1_EmbedFailureRollsBack ==
    (RaisedAt({"embed"}) /\ last.cleanup_failed = {}) => DocGone(last.doc)

C1_Witness ==
    /\ RaisedAt({"embed"}) /\ last.cleanup_failed = {}
    /\ faults = 1
    /\ \E d \in DOMAIN documents :
          ChunkId(d, 0) \in MemIds \cap FtsIds \cap EdgeIds

\* C2: when index_document fails inside the vector-insert, lexical-insert or
\* entity step, at any point of that step, every vector (in memory and
\* durable), lexical entry and entity edge of the document's chunks and the
\* document row are deleted before the error reaches the caller.
C2_StageFailureRollsBack ==
    (RaisedAt({"add_batch", "fts", "entities"}) /\ last.cleanup_failed = {})
        => DocGone(last.doc)

\* C3: after any sequence of index_document and remove_document calls that
\* have returned or raised, every chunk id in the similarity index (memory or
\* table), the lexical index or on a graph edge belongs to a document that
\* exists in the document store.
C3_ViewsHoldOnlyLiveDocuments ==
    pc = "idle" => \A c \in ViewIds : c[1] \in DOMAIN documents

\* C4: delete_document on an existing document, from remove_document or from
\* the rollback of index_document, removes all chunk rows of the document.
C4_DeleteRemovesChunkRows ==
    (\/ last.op = "remove" /\ last.result \in {"true", "raised"}
     \/ RaisedAt({"embed", "add_batch", "fts", "entities"})
        /\ <<"document", 0>> \notin last.cleanup_failed)
        => \A r \in chunks : r.document_id # last.doc

\* C5: after remove_document(id) returned true no vector, lexical entry or
\* entity edge of the document's chunks remains and no similarity search
\* returns one of its chunks; remove_document of an id without a document
\* returns false.
C5_RemoveClearsViews ==
    /\ (last.op = "remove" /\ last.result = "true") =>
          /\ DocGone(last.doc)
          /\ \A q \in Queries(dimension), k \in 1..MaxK :
                \A c \in SeqRange(Ranking(Search(index, id_map, dimension, q, k))) :
                    c[1] # last.doc
    /\ (last.op = "remove" /\ ~last.existed) => last.result = "false"

C5_Witness ==
    /\ last.op = "remove" /\ last.result = "true" /\ last.was_indexed
    /\ faults = 0
    /\ \E d \in DOMAIN documents :
          ChunkId(d, 0) \in MemIds \cap FtsIds \cap EdgeIds

\* C6: when a cleanup step of the rollback raises, every other cleanup step
\* is still run and takes effect, and the error that reaches the caller is
\* the ingestion error, not the cleanup error.
C6_CleanupStepsIsolated ==
    RaisedAt({"embed", "add_batch", "fts", "entities"}) =>
        LET d == last.doc
            ran(step) == step \in last.attempted /\ step \notin last.cleanup_failed
        IN /\ last.attempted =
                 {<<"entities", j>> : j \in 1..last.n_chunks}
                 \cup (IF last.fts_indexed THEN {<<"fts", 0>>} ELSE {})
                 \cup (IF last.vectors_stored THEN {<<"vectors", 0>>} ELSE {})
                 \cup {<<"document", 0>>}
           /\ \A j \in 1..last.n_chunks :
                 ran(<<"entities", j>>) => ChunkId(d, j - 1) \notin EdgeIds
           /\ (last.fts_indexed /\ <<"fts", 0>> \notin last.cleanup_failed)
                 => \A c \in FtsIds : c[1] # d
           /\ (last.vectors_stored /\ <<"vectors", 0>> \notin last.cleanup_failed)
                 => \A c \in RowIds(chunk_vectors) \cup MemIds : c[1] # d
           /\ <<"document", 0>> \notin last.cleanup_failed => d \notin DOMAIN documents
           /\ last.raised_error = last.error

C6_Witness ==
    /\ RaisedAt({"entities"})
    /\ last.cleanup_failed = {<<"entities", 1>>}
    /\ last.fts_indexed /\ last.vectors_stored
    /\ last.doc \notin DOMAIN documents

\* C7: once the document is persisted, every way index_document ends other
\* than returning the id goes through the compensating deletes, also when
\* the ingestion is interrupted by the shutdown signal.
C7_EveryExitCompensates ==
    (last.op = "index" /\ last.result \notin {"returned", "rejected"})
        => last.result = "raised"

\* C8: after any sequence of add, add_batch and delete calls a VectorStore
\* constructed afresh from the table ranks the chunk ids for every query and
\* k exactly as the live instance does.
C8_RestartKeepsRankings ==
    rb = "idle" =>
        LET l == LoadOrCreate(chunk_vectors, dimension)
        IN \A q \in Queries(dimension), k \in 1..MaxK :
              Ranking(Search(index, id_map, dimension, q, k))
                  = Ranking(Search(l.index, l.id_map, dimension, q, k))

\* C9: a search that runs while _load_or_create rebuilds the index sees the
\* pair (index, id_map) as it was before the rebuild or as it is after it.
C9_RebuildLooksAtomic ==
    (observed.op = "search" /\ observed.during_rebuild) => observed.consistent

\* C10: add and add_batch with a vector whose width is not the configured
\* dimension raise and leave index, id_map and chunk_vectors unchanged.
C10_WrongWidthRejected ==
    (vs_last.op \in {"add", "add_batch"} /\ ~vs_last.width_ok)
        => vs_last.raised /\ ~vs_last.changed

C10_Witness ==
    /\ vs_last.op = "add_batch" /\ ~vs_last.width_ok /\ vs_last.raised
    /\ Len(index) > 0
    /\ chunk_vectors # <<>>

\* C11: index_document for a filename of a live document raises without
\* changing any of the four stores, so no two live documents ever share a
\* filename; after remove_document of that document returned true the
\* filename is free again.
C11_FilenamesUnique ==
    /\ [](/\ \A d1 \in DOMAIN documents, d2 \in DOMAIN documents :
                documents[d1] = documents[d2] => d1 = d2
          /\ (last.op = "index" /\ last.result = "rejected")
                => HasFilename(documents, last.filename)
          /\ (last.op = "remove" /\ last.result = "true")
                => ~HasFilename(documents, last.filename))
    /\ [][(last' # last /\ last'.op = "index" /\ last'.result = "rejected")
            => UNCHANGED <<docVars, vecVars, chunks_fts, kgVars>>]_vars

\* The filename of a removed document was ingested again, and a further
\* index_document of it was rejected.
C11_Witness ==
    /\ last.op = "index" /\ last.result = "rejected"
    /\ faults = 0
    /\ \E d \in DOMAIN documents :
          /\ documents[d] = last.filename
          /\ \E r \in chunks : r.document_id \notin DOMAIN documents
                                /\ r.content[1] = last.filename

\* C12: across extraction passes (add_entities at ingest, the reprocess
\* route) the frequency of an entity node that the pass leaves in the graph
\* is not lower than before, and its display name not shorter; a reprocess
\* raises the frequency of every node its chunks mention.
C12_FrequencyMonotonic ==
    [][/\ \A n \in graph_nodes, m \in graph_nodes' :
             (m.name = n.name /\ m.category = n.category) =>
                 /\ m.frequency >= n.frequency
                 /\ Len(m.display_name) >= Len(n.display_name)
       /\ (pc = "idle" /\ last'.op = "reprocess") =>
             \A n \in graph_nodes, m \in graph_nodes' :
                (/\ m.name = n.name /\ m.category = n.category
                 /\ \E x \in chunk_edges' \ chunk_edges : x.node_id = m.id)
                    => m.frequency > n.frequency]_vars

\* C13: every entity node has a chunk edge and every edge refers to a node;
\* delete_chunk_entities(c) removes exactly the edges of c, returns their
\* number, removes the nodes left without an edge and keeps the others.
C13_NoOrphanNodes ==
    /\ [](/\ \A n \in graph_nodes : \E x \in chunk_edges : x.node_id = n.id
          /\ \A x \in chunk_edges : \E n \in graph_nodes : n.id = x.node_id)
    /\ [][(pc = "idle" /\ last'.op = "delete_chunk_entities") =>
            LET left == {x \in chunk_edges : x.chunk_id # last'.chunk}
            IN /\ chunk_edges' = left
               /\ last'.returned = Cardinality(chunk_edges \ left)
               /\ graph_nodes' = {n \in graph_nodes : \E x \in left : x.node_id = n.id}]_vars

\* delete_chunk_entities removed a node and kept one that another chunk
\* still refers to.
C13_Witness ==
    /\ last.op = "delete_chunk_entities" /\ last.returned = 2
    /\ Cardinality(graph_nodes) = 1
    /\ \E x \in chunk_edges : x.chunk_id # last.chunk

\* Queries used to probe the lexical index.
ProbeQueries == {<<"learning">>, <<"machine", "learning">>, <<"deep">>}

NoRepeat(s) == \A i \in DOMAIN s, j \in DOMAIN s : s[i] = s[j] => i = j

\* C14: index_chunk and index_chunks_batch are upserts: the lexical index
\* holds one entry per indexed and not deleted chunk id, count() is the
\* number of those ids, and no search returns a chunk id twice.
C14_LexicalUpsert ==
    /\ KwCount(chunks_fts) = Cardinality(FtsIds)
    /\ \A q \in ProbeQueries :
          NoRepeat(KwSearch(chunks_fts, q, MaxFts, <<>>, FALSE, TRUE).hits)

\* C15: right after rebuild_index the lexical index holds exactly one entry,
\* with the stored content, per chunk of a document that exists, and
\* nothing else.
C15_RebuildMatchesLiveChunks ==
    last.op = "rebuild_index" =>
        LET live == {r \in chunks : r.document_id \in DOMAIN documents}
        IN /\ SeqRange(chunks_fts) = {FtsRow(r.id, r.content) : r \in live}
           /\ Len(chunks_fts) = Cardinality(live)

\* C16: delete_document(id) returns true exactly when the document exists,
\* the document is gone afterwards (so every repeated call returns false),
\* and a call that returns false changes nothing.
C16_DeleteDocumentOnce ==
    /\ [](last.op = "delete_document" => last.doc \notin DOMAIN documents)
    /\ [][(pc = "idle" /\ last'.op = "delete_document") =>
            /\ last'.returned = (last'.doc \in DOMAIN documents)
            /\ ~last'.returned =>
                  UNCHANGED <<docVars, vecVars, chunks_fts, kgVars>>]_vars

\* A repeated delete_document: the chunk rows and lexical entries of the
\* document show that it existed and was deleted by delete_document alone.
C16_Witness ==
    /\ last.op = "delete_document" /\ ~last.returned
    /\ \E r \in chunks : r.document_id = last.doc
    /\ \E c \in FtsIds : c[1] = last.doc
    /\ \E d \in DOMAIN documents : d > last.doc

\* The two modes of a keyword search request, by the fields that are given.
HasFreeform(req) == req.query # None
HasStructured(req) == req.required_keywords # None \/ req.optional_keywords # None

OnlyFreeform(req) ==
    HasFreeform(req) /\ ~HasStructured(req) /\ req.exclude_keywords = None

OnlyStructured(req) ==
    /\ HasStructured(req) /\ ~HasFreeform(req)
    /\ req.exclude_terms = None /\ ~req.exact_match

\* The stored text of a chunk that a route returned.
WordsOfChunk(c) == WordsOf((CHOOSE r \in chunks : r.id = c).content)

AllOf(opt, words) ==
    opt = None \/ \A i \in DOMAIN opt[1] : ContainsPhrase(words, opt[1][i])

AnyOf(opt, words) ==
    ~Truthy(opt) \/ \E i \in DOMAIN opt[1] : ContainsPhrase(words, opt[1][i])

NoneOf(opt, words) ==
    opt = None \/ \A i \in DOMAIN opt[1] : ~ContainsPhrase(words, opt[1][i])

\* Chunks of existing documents in the lexical index, in index order.
Searchable == Enriched([i \in DOMAIN chunks_fts |-> chunks_fts[i].chunk_id])

\* C17: with the default options a query that is one double-quoted phrase
\* returns only chunks that contain the words contiguously and in order,
\* and w1 AND w2, w1 OR w2, w1 NOT w2 return only chunks that satisfy the
\* boolean expression.
C17_DefaultQueryGrammar ==
    (/\ last.op = "keyword_search" /\ last.route_ran
     /\ OnlyFreeform(last.request)
     /\ ~last.request.exact_match /\ last.request.exclude_terms = None) =>
        LET q == last.request.query[1]
            has(c, w) == ContainsPhrase(WordsOfChunk(c), <<w>>)
        IN /\ (Len(q) > 2 /\ q[1] = QUOTE /\ q[Len(q)] = QUOTE) =>
                 /\ last.status = 200
                 /\ \A i \in DOMAIN last.results :
                       ContainsPhrase(WordsOfChunk(last.results[i]),
                                      SubSeq(q, 2, Len(q) - 1))
           /\ (Len(q) = 3 /\ q[2] \in Operators /\ q[1] \notin Operators) =>
                 /\ last.status = 200
                 /\ \A i \in DOMAIN last.results :
                       LET c == last.results[i]
                       IN CASE q[2] = "AND" -> has(c, q[1]) /\ has(c, q[3])
                            [] q[2] = "OR" -> has(c, q[1]) \/ has(c, q[3])
                            [] q[2] = "NOT" -> has(c, q[1]) /\ ~has(c, q[3])

\* C18: a structured request to POST /search/keyword (keywords given, no
\* query) is answered successfully, with the chunks that contain every
\* required keyword and, when optional keywords are given, one of them.
C18_StructuredModeAnswered ==
    (/\ last.op = "keyword_search"
     /\ OnlyStructured(last.request)
     /\ Truthy(last.request.required_keywords)
           \/ Truthy(last.request.optional_keywords)) =>
        LET req == last.request
            wanted(c) == /\ AllOf(req.required_keywords, WordsOfChunk(c))
                         /\ AnyOf(req.optional_keywords, WordsOfChunk(c))
                         /\ NoneOf(req.exclude_keywords, WordsOfChunk(c))
            all == SelectSeq(Searchable, wanted)
        IN /\ last.status = 200
           /\ \A i \in DOMAIN last.results : wanted(last.results[i])
           /\ Len(last.results) = Min(req.top_k, Len(all))

\* C19 as stated: a request with neither mode or with both is rejected
\* before the route runs, and every request with one mode and no field of
\* the other mode passes validation.
C19_ExactlyOneMode ==
    last.op = "keyword_search" =>
        LET req == last.request
        IN /\ (~HasFreeform(req) /\ ~HasStructured(req))
                 => last.status = 422 /\ ~last.route_ran
           /\ (HasFreeform(req) /\ HasStructured(req))
                 => last.status = 422 /\ ~last.route_ran
           /\ (OnlyFreeform(req) \/ OnlyStructured(req))
                 => last.status # 422 /\ last.route_ran

\* C19 amended: as above, where a structured request passes validation when
\* one of its keyword lists is not empty (and is rejected when both are
\* empty or absent).
C19_ExactlyOneModeWithKeywords ==
    last.op = "keyword_search" =>
        LET req == last.request
            keyed == Truthy(req.required_keywords) \/ Truthy(req.optional_keywords)
        IN /\ (~HasFreeform(req) /\ ~HasStructured(req))
                 => last.status = 422 /\ ~last.route_ran
           /\ (HasFreeform(req) /\ HasStructured(req))
                 => last.status = 422 /\ ~last.route_ran
           /\ (OnlyFreeform(req) \/ (OnlyStructured(req) /\ keyed))
                 => last.status # 422 /\ last.route_ran
           /\ (OnlyStructured(req) /\ ~keyed)
                 => last.status = 422 /\ ~last.route_ran

\* A request naming both modes was rejected while the index held chunks.
C19_Witness ==
    /\ last.op = "keyword_search"
    /\ HasFreeform(last.request) /\ HasStructured(last.request)
    /\ last.status = 422
    /\ chunks_fts # <<>>

\* C20: not found is answered 404; a validation error, an invalid query, an
\* unsupported file type and a filename that is already ingested are
\* answered with a 400-class status; any other failure with 500.
ClientErrors == {400, 422}

C20_ErrorMapping ==
    /\ (last.op = "remove" /\ last.result = "false") => last.status = 404
    /\ (last.op = "index" /\ last.result = "no_file") => last.status = 404
    /\ (last.op = "index" /\ last.result \in {"rejected", "unsupported"})
          => last.status \in ClientErrors
    /\ (last.op = "keyword_search" /\ ~last.route_ran) => last.status \in ClientErrors
    /\ (last.op = "keyword_search" /\ last.request.query = Some(<<"AND">>))
          => last.status \in ClientErrors
    /\ (last.op \in {"index", "remove"} /\ last.result = "raised") => last.status = 500

\* C21: the add-batch response counts every requested document in
\* summary.total, succeeded + failed is the number of result entries, the
\* entries follow the request order, without fail_fast every document has
\* its entry, with fail_fast the loop stops at the first error and no
\* index_document call runs after it, status is "completed" exactly when
\* nothing failed, and every document reported as a success is still held by
\* the document table, the vector index, the lexical index and the graph.
Ingested(d, f) ==
    /\ DocumentExists(documents, d) /\ documents[d] = f
    /\ ChunkIdsOfDocument(chunks, d) # <<>>
    /\ SeqRange(ChunkIdsOfDocument(chunks, d)) \subseteq
           (MemIds \cap RowIds(chunk_vectors) \cap FtsIds \cap EdgeIds)

C21_BatchSummary ==
    /\ (route.op = "add_batch" /\ route.phase \in {"item", "index"}
          /\ route.request.fail_fast) => route.failed = 0
    /\ (route.op = "add_batch" /\ route.phase = "responded") =>
         LET req == route.request
             rsp == route.response
             n == Len(rsp.results)
             errs == {i \in 1..n : rsp.results[i].status = "error"}
         IN /\ rsp.summary.total = Len(req.documents)
            /\ rsp.summary.succeeded + rsp.summary.failed = n
            /\ rsp.summary.failed = Cardinality(errs)
            /\ n <= Len(req.documents)
            /\ \A i \in 1..n : rsp.results[i].file_path = req.documents[i].file_path
            /\ ~req.fail_fast => n = Len(req.documents)
            /\ req.fail_fast => IF errs = {} THEN n = Len(req.documents) ELSE errs = {n}
            /\ (rsp.status = "completed") <=> (rsp.summary.failed = 0)
            /\ \A i \in (1..n) \ errs :
                 Ingested(rsp.results[i].document_id, rsp.results[i].file_path)

\* A batch answered after its first document was ingested and the ingestion
\* of its second one raised and was rolled back.
C21_Witness ==
    /\ route.op = "add_batch" /\ route.phase = "responded"
    /\ Len(route.response.results) = 2
    /\ route.response.results[1].status = "success"
    /\ route.response.results[2].status = "error"
    /\ last.result = "raised"
    /\ route.response.status = "partial"

\* C28: once an add request or an add-batch entry with splitter_overrides has
\* been processed, whether index_document returned or raised, the shared
\* Indexer's splitter is the database's configured splitter again, so every
\* entry and every request begins with the configured splitter.
C28_OverrideScoped ==
    (IF route.op = "none" THEN TRUE ELSE route.phase \in {"item", "responded"})
        => splitter = "configured"

\* Under SpecPollFair every start_server call ends: it raises or returns.
StartServerTerminates ==
    (poll.op = "start_server") ~> (IF poll.op = "none" THEN FALSE ELSE poll.done)

\* C22: the readiness polling of start_server makes at most max_retries
\* status requests, makes none after the first 200 response, and sleeps for
\* the retry delay between any two consecutive unsuccessful requests, whether
\* the earlier one ended in an exception or in a non-200 response.
Unsuccessful == {"non200", "exception"}

C22_BoundedPolling ==
    poll.op = "start_server" =>
        LET log == poll.log
            requests == {i \in DOMAIN log : log[i] \in StatusOutcomes}
        IN /\ Cardinality(requests) <= max_retries
           /\ \A i \in requests : log[i] = "200" => i = Len(log)
           /\ \A i \in requests :
                (log[i] \in Unsuccessful /\ i < Len(log)) => log[i + 1] = "sleep"

\* C23: there is one entity node per (normalized name, category), a
\* normalized name having no capital letter and no blank at either end, and
\* one edge per (chunk id, node id); after add_entities every mention of the
\* call has its node under the lowercased, stripped text and its label, and
\* the edge from the chunk to that node carries the score of the last
\* mention of the node in the call and the call's source tag.
Capitals == {"C", "D"}

Normalized(name) ==
    /\ \A i \in DOMAIN name : name[i] \notin Capitals
    /\ name # <<>> => (Head(name) # " " /\ name[Len(name)] # " ")

C23_OneNodePerEntity ==
    /\ [](/\ \A n \in graph_nodes, m \in graph_nodes :
               (n.name = m.name /\ n.category = m.category) => n = m
          /\ \A n \in graph_nodes, m \in graph_nodes : n.id = m.id => n = m
          /\ \A n \in graph_nodes : Normalized(n.name)
          /\ \A x \in chunk_edges, y \in chunk_edges :
               (x.chunk_id = y.chunk_id /\ x.node_id = y.node_id) => x = y)
    /\ [][last'.op = "add_entities" =>
            LET ents == last'.entities
                NodeOf(e) == {n \in graph_nodes' : /\ n.name = Lower(Strip(e.text))
                                                   /\ n.category = e.label}
            IN \A i \in DOMAIN ents :
                 /\ Cardinality(NodeOf(ents[i])) = 1
                 /\ (\A j \in DOMAIN ents : j > i => NodeOf(ents[j]) # NodeOf(ents[i]))
                      => \E x \in chunk_edges' :
                           /\ x.chunk_id = last'.chunk
                           /\ {x.node_id} = {n.id : n \in NodeOf(ents[i])}
                           /\ x.weight = ents[i].score
                           /\ x.source = last'.source]_vars

\* The same entity was mentioned for one chunk by both sources and under
\* both labels: two nodes, and the chunk's edge to the first one was replaced.
C23_Witness ==
    /\ last.op = "add_entities" /\ last.source = "user" /\ Len(last.entities) = 2
    /\ Cardinality(graph_nodes) = 2
    /\ \E n \in graph_nodes : n.category = "animal" /\ n.frequency = 3
    /\ \E x \in chunk_edges : x.chunk_id = last.chunk /\ x.source = "gliner"
    /\ \E x \in chunk_edges : x.chunk_id = last.chunk /\ x.source = "user" /\ x.weight = 60

\* C24: in every state and for every query, top_k and min_score, each
\* result of Searcher.search has a score not below min_score when one is
\* given, its chunk is in the chunk table and its document in the document
\* table, the results are exactly the hits of the vector search that meet
\* these conditions (the others are skipped, nothing is raised), and their
\* scores are in descending order.
Meets(hit, ms) ==
    /\ ms # None => hit[2] >= ms[1]
    /\ \E r \in chunks : r.id = hit[1] /\ r.document_id \in DOMAIN documents

C24_SearchResultsLive ==
    \A q \in SearchQueries, k \in TopKs, ms \in MinScores :
        LET raw == Search(index, id_map, dimension, q, k)
            res == SearcherSearch(index, id_map, dimension, documents, chunks, q, k, ms)
        IN /\ \A i \in DOMAIN res :
                /\ ms # None => res[i].similarity_score >= ms[1]
                /\ \E r \in chunks : /\ r.id = res[i].chunk_id
                                     /\ r.document_id = res[i].document_id
                /\ res[i].document_id \in DOMAIN documents
                /\ res[i].document_filename = documents[res[i].document_id]
           /\ Len(res) = Cardinality({i \in DOMAIN raw : Meets(raw[i], ms)})
           /\ \A i \in DOMAIN res : \E j \in DOMAIN raw :
                /\ raw[j] = <<res[i].chunk_id, res[i].similarity_score>>
                /\ Meets(raw[j], ms)
           /\ \A i \in DOMAIN res, j \in DOMAIN res :
                i < j => res[i].similarity_score >= res[j].similarity_score

\* A search just answered with one result after skipping a hit below the
\* threshold or without its document, while a removed document's vectors
\* were still in the index.
C24_Witness ==
    /\ last.op = "search" /\ last.min_score # None
    /\ last.raw = Search(index, id_map, dimension, last.query, last.top_k)
    /\ Len(last.raw) = 2 /\ Len(last.results) = 1
    /\ \E i \in DOMAIN last.raw :
         \E r \in chunks : r.id = last.raw[i][1] /\ r.document_id \notin DOMAIN documents
    /\ last.results = SearcherSearch(index, id_map, dimension, documents, chunks,
                                     last.query, last.top_k, last.min_score)

\* C25: no batch returned by _batch_labels holds more than
\* max_labels_per_pass labels.
C25_LabelBatchWithinLimit ==
    last.op = "batch_labels" =>
        \A i \in DOMAIN last.batches : Len(last.batches[i]) <= cur.max_labels_per_pass

\* C26: a failed index_document leaves the entity graph as it was before
\* the call.  Only index_document writes to the graph here, so whenever no
\* call is running the graph must be the one that the calls that returned
\* built, in their order: the same nodes with the same frequency and display
\* name and the same edges, node ids aside.
RECURSIVE GraphOfChunks(_, _)
GraphOfChunks(st, ids) ==
    IF ids = <<>> THEN st
    ELSE LET c == Head(ids)
             ents == ExtractedEntities(documents[c[1]], c[2])
         IN GraphOfChunks(AddEntities(st, c, ents, Len(ents), "gliner"), Tail(ids))

RECURSIVE GraphOfDocuments(_, _)
GraphOfDocuments(st, ds) ==
    IF ds = <<>> THEN st
    ELSE GraphOfDocuments(GraphOfChunks(st, ChunkIdsOfDocument(chunks, ds[Len(ds)])),
                          SubSeq(ds, 1, Len(ds) - 1))

Shape(st) ==
    [nodes |-> {[name |-> n.name, category |-> n.category, frequency |-> n.frequency,
                 display_name |-> n.display_name] : n \in st.nodes},
     edges |-> {[chunk_id |-> x.chunk_id, weight |-> x.weight, source |-> x.source,
                 node |-> LET n == CHOOSE m \in st.nodes : m.id = x.node_id
                          IN <<n.name, n.category>>] : x \in st.edges}]

C26_FailedIngestKeepsGraph ==
    pc = "idle" =>
        Shape(KG) = Shape(GraphOfDocuments([nodes |-> {}, edges |-> {}, next |-> 1],
                                           DescIds(DOMAIN documents)))

\* C27: when remove_document(id) comes back without raising for an id that
\* was given to a document, whether this is the first call or a call
\* repeated after one that raised part-way, no vector, lexical entry or
\* entity edge of that document is left.
C27_RemoveRetryCleans ==
    (last.op = "remove" /\ last.result \in {"true", "false"} /\ last.doc < next_doc
       /\ ~DocumentExists(documents, last.doc))
        => \A c \in ViewIds : c[1] # last.doc

\* The stores the indexer and the searcher use are those of active_db_name.
OnActiveStores(c) ==
    IF c.indexer = NoIndexer
    THEN c.searcher = NoSearcher /\ c.active_db_name = "none"
    ELSE /\ c.indexer.document_store = c.active_db_name
         /\ c.indexer.vector_store = c.active_db_name
         /\ c.indexer.keyword_searcher = c.active_db_name
         /\ c.indexer.entity_store \in {c.active_db_name, "none"}
         /\ c.searcher.document_store = c.active_db_name
         /\ c.searcher.vector_store = c.active_db_name

\* C29: load_database is all-or-nothing.  When a reload answered 500 while
\* the context referred consistently to database A, the context afterwards
\* still refers consistently to A; and at all times the stores of the
\* indexer and of the searcher are those of active_db_name.
C29_LoadAllOrNothing ==
    /\ (last.op = "reload" /\ last.status = 500)
          => \A a \in Databases :
                last.loaded = a => RefersTo(context, a)
    /\ OnActiveStores(context)

SplitReturned == IF cur.op = "split" THEN cur.phase = "returned" ELSE FALSE

\* The words of the i-th sub-chunk.
WordsOfSubChunk(i) == StrSplit(cur.sub_chunks[i].content)

\* The sub-chunks laid end to end, each without its first k words.
RECURSIVE Merged(_, _)
Merged(i, k) ==
    IF i = 0 THEN <<>>
    ELSE Merged(i - 1, k)
            \o Drop(WordsOfSubChunk(i), IF i = 1 THEN 0 ELSE k)

\* A pass of the loop after which the loop goes on starts the next pass
\* further into the text.  start_word_idx is all a pass depends on, so a pass
\* that does not move it forward is followed by passes that do not either.
SplitAdvances ==
    (cur.op = "split" /\ cur.phase = "loop" /\ cur'.phase = "loop")
        => cur'.start_word_idx > cur.start_word_idx

\* C30: split terminates for every text and every configured word_size and
\* overlap (every pass of its loop moves forward in the text, and the call
\* returns); the sub-chunks it returns contain every word of the text in
\* order (laid end to end without the repeated words they give the text's
\* words), and two consecutive sub-chunks share exactly `overlap` words.
C30_SplitTerminatesAndCovers ==
    /\ [][SplitAdvances]_vars
    /\ <>SplitReturned
    /\ [](SplitReturned =>
            /\ Merged(Len(cur.sub_chunks), cur.overlap) = StrSplit(cur.text)
            /\ \A i \in 1..(Len(cur.sub_chunks) - 1) :
                  Cardinality(SeqRange(WordsOfSubChunk(i))
                                 \cap SeqRange(WordsOfSubChunk(i + 1)))
                     = cur.overlap)

=============================================================================
